---- MODULE Spec2Model ----
(***************************************************************************)
(* Retrieval-augmentation pipeline of claude-sdk-agent:                    *)
(*   QueryDecompositionService.decomposeQuery  (query-decomposition)       *)
(*   BedrockKBService.retrieve                 (bedrock-kb)                *)
(*   RAGService.retrieveContext / augmentPrompt (rag.service)              *)
(*                                                                         *)
(* Strings are sequences of characters; a literal of the source that is    *)
(* never taken apart is one element of the sequence.  A source locator is  *)
(* the sequence of its '/'-separated segments.  Scores are counted in      *)
(* quarters: 0..4 stands for 0, 0.25, 0.5, 0.75, 1.                        *)
(***************************************************************************)
EXTENDS Integers, Sequences, FiniteSets, TLC

\* ---- bounds ------------------------------------------------------------
\* largest configured ragMaxDecompositionQueries
MaxSubQueries == 2
\* longest subQueries array a completion returns
MaxItems == 3
\* longest retrievalResults list the knowledge base returns
MaxResponse == 2
\* most entries the knowledge base returns over the calls of one run
MaxRetrieved == 3

\* ---- program constants -------------------------------------------------
\* hashContent: content.substring(0, 100)
PrefixLen == 100

\* ---- strings -----------------------------------------------------------
Min(a, b) == IF a < b THEN a ELSE b

\* String.prototype.substring(a, b) for 0 <= a <= b
substring(s, a, b) == SubSeq(s, a + 1, Min(b, Len(s)))

\* Number -> decimal string, as template literals and String() print a
\* non-negative integer
RECURSIVE Digits(_)
Digits(n) ==
  LET d == <<"0", "1", "2", "3", "4", "5", "6", "7", "8", "9">>[(n % 10) + 1]
  IN  IF n < 10 THEN <<d>> ELSE Digits(n \div 10) \o <<d>>

\* a run of n copies of character c
Rep(c, n) == [k \in 1..n |-> c]

\* ---- inputs ------------------------------------------------------------
\* user messages / queries (non-empty: both routes reject an empty one)
Queries == { <<"h", "i", "?">> }

\* the sub-query strings a completion proposes, in the order it lists them
SubQueryPool == << <<"s", "1">>, <<"s", "2">>, <<"s", "3">>, <<"s", "4">>, <<"s", "5">> >>

\* S3 locations seen in knowledge-base answers; <<>> is an absent location
UriA == <<"s3:", "", "kb", "a.md">>
UriB == <<"s3:", "", "kb", "b.md">>

\* passage texts: two short ones, and two of equal length that agree on the
\* first PrefixLen characters and differ after them
TextA == <<"a">>
TextB == <<"b">>
TextLongY == Rep("x", PrefixLen) \o <<"y">>
TextLongZ == Rep("x", PrefixLen) \o <<"z">>

\* One entry of response.retrievalResults as the AWS SDK hands it over:
\* content.text, location.s3Location.uri and score are all optional.
RawItem(text, uri, hasScore, score) ==
  [text |-> text, uri |-> uri, hasScore |-> hasScore, score |-> score]

\* a passage, one that comes without location and without score, and two
\* long ones with different locations and scores, the first tying with the
\* first passage
KBItems ==
  { RawItem(TextA, UriA, TRUE, 3),
    RawItem(TextB, <<>>, FALSE, 0),
    RawItem(TextLongY, UriB, TRUE, 3),
    RawItem(TextLongZ, UriA, TRUE, 2) }

RECURSIVE SeqsUpTo(_, _)
SeqsUpTo(S, n) ==
  IF n = 0 THEN { <<>> }
  ELSE LET shorter == SeqsUpTo(S, n - 1)
       IN  shorter \cup { Append(s, x) : s \in { t \in shorter : Len(t) = n - 1 }, x \in S }

\* what client.send(new RetrieveCommand(..)) does: rejects, or resolves with
\* a retrievalResults list (an absent list reads as the empty one)
KBOutcomes ==
  { [kind |-> "throws", items |-> <<>>] }
  \cup { [kind |-> "ok", items |-> r] : r \in SeqsUpTo(KBItems, MaxResponse) }

\* what client.messages.create(..) does for the decomposition prompt
\*   throws        the call rejects
\*   nonText       content[0] is not a text block
\*   badJson       JSON.parse rejects the text
\*   noField       the JSON value has no subQueries member
\*   notSliceable  subQueries is a number or an object
\*   string        subQueries is a JSON string
\*   array         subQueries is the array of the first n pool strings
StringField == <<"a", "b">>

CompletionOutcomes ==
  { [kind |-> k, n |-> 0] : k \in {"throws", "nonText", "badJson", "noField", "notSliceable", "string"} }
  \cup { [kind |-> "array", n |-> n] : n \in 0..MaxItems }

\* the value of parsed.subQueries, seen through .length and [i]
ParsedSubQueries(outcome) ==
  IF outcome.kind = "array" THEN SubSeq(SubQueryPool, 1, outcome.n)
  ELSE IF outcome.kind = "string" THEN [k \in 1..Len(StringField) |-> <<StringField[k]>>]
  ELSE <<>>

\* overallTimer(): Date.now() - start, counted in awaited calls: the
\* decomposition and every retrieve() call take one unit each
Elapsed(calls) == Len(calls) + 1

\* ---- configuration -----------------------------------------------------
\* config of config/env.ts, the members the pipeline reads.  Strings that
\* are only tested for emptiness are kept as "" or one fixed value.
Configs ==
  [ enableRag : BOOLEAN,
    ragBedrockKbId : {"", "KB"},
    anthropicApiKey : {"", "sk"},
    ragMaxDecompositionQueries : 1..MaxSubQueries,
    ragMinRelevanceScore : {0, 3} ]

\* ---- QueryDecompositionService ----------------------------------------
\* the last n elements instead of the first
slice0_Tail(s, n) == SubSeq(s, Len(s) - Min(n, Len(s)) + 1, Len(s))

\* Array.prototype.slice(0, n) and String.prototype.slice(0, n), n >= 0
slice0(s, n) == SubSeq(s, 1, Min(n, Len(s)))

\* client after QueryDecompositionService.initialize()
QDInitialize(client, cfg) ==
  IF cfg.anthropicApiKey = "" THEN client ELSE "client"

Fallback(query, why) ==
  [originalQuery |-> query, subQueries |-> <<query>>, reasoning |-> why, isArray |-> TRUE]

\* the value decomposeQuery resolves with; client is the static client
\* after the lazy initialize()
decomposeQuery(query, client, cfg, outcome) ==
  IF client = "null"
    THEN Fallback(query, "No decomposition performed - API key not configured")
  ELSE IF outcome.kind \in {"throws", "nonText", "badJson", "noField", "notSliceable"}
    THEN Fallback(query, "Decomposition failed, using original query")
  ELSE [originalQuery |-> query,
        subQueries |-> slice0(ParsedSubQueries(outcome), cfg.ragMaxDecompositionQueries),
        reasoning |-> "parsed.reasoning",
        isArray |-> (outcome.kind = "array")]

\* ---- BedrockKBService --------------------------------------------------
KBInitialize(client, cfg) ==
  IF cfg.ragBedrockKbId = "" THEN client ELSE "client"

\* result.score || 0
ScoreOf(raw) == IF raw.hasScore THEN raw.score ELSE 0

\* one pushed RetrievalResult
ToResult(raw) ==
  [content |-> raw.text,
   source |-> IF raw.uri = <<>> THEN <<"Unknown source">> ELSE raw.uri,
   score |-> ScoreOf(raw)]

\* the filter testing the presence of a score instead of its value
RECURSIVE FilterResults_AnyScore(_, _)
FilterResults_AnyScore(items, minScore) ==
  IF items = <<>> THEN <<>>
  ELSE LET rest == FilterResults_AnyScore(Tail(items), minScore)
       IN  IF Head(items).hasScore
             THEN <<ToResult(Head(items))>> \o rest
             ELSE rest

\* the results array retrieve() builds from response.retrievalResults
RECURSIVE FilterResults(_, _)
FilterResults(items, minScore) ==
  IF items = <<>> THEN <<>>
  ELSE LET rest == FilterResults(Tail(items), minScore)
       IN  IF ScoreOf(Head(items)) >= minScore
             THEN <<ToResult(Head(items))>> \o rest
             ELSE rest

\* retrieve(): "throws" or the RetrievalResponse's results
KBRetrieve(client, cfg, outcome) ==
  IF client = "null" \/ outcome.kind = "throws"
    THEN [threw |-> TRUE, results |-> <<>>]
    ELSE [threw |-> FALSE, results |-> FilterResults(outcome.items, cfg.ragMinRelevanceScore)]

\* ---- RAGService helpers -----------------------------------------------
\* the feature flag forgotten
isEnabled_KbOnly(cfg) == cfg.ragBedrockKbId # ""

isEnabled(cfg) == cfg.enableRag /\ cfg.ragBedrockKbId # ""

\* the whole content as the key
hashContent_Full(content) ==
  content \o <<"_">> \o Digits(Len(content))

hashContent(content) ==
  substring(content, 0, PrefixLen) \o <<"_">> \o Digits(Len(content))

\* allResults is a Map: a sequence of entries in insertion order
MapHas(m, key) == \E k \in 1..Len(m) : m[k].key = key
MapValues(m) == [k \in 1..Len(m) |-> m[k].value]

\* allSources is a Set: a sequence without repetition, in insertion order
SetAdd(s, x) == IF \E k \in 1..Len(s) : s[k] = x THEN s ELSE Append(s, x)

\* the loop with the membership test left out
RECURSIVE FoldResults_NoDedup(_, _)
FoldResults_NoDedup(acc, results) ==
  IF results = <<>> THEN acc
  ELSE LET result == Head(results)
           contentKey == hashContent(result.content)
           next == [results |-> Append(acc.results, [key |-> contentKey, value |-> result]),
                    sources |-> SetAdd(acc.sources, result.source)]
       IN  FoldResults_NoDedup(next, Tail(results))

\* the loop with allSources.add moved out of the membership test
RECURSIVE FoldResults_SourceAlways(_, _)
FoldResults_SourceAlways(acc, results) ==
  IF results = <<>> THEN acc
  ELSE LET result == Head(results)
           contentKey == hashContent(result.content)
           next == [results |-> IF MapHas(acc.results, contentKey) THEN acc.results
                                ELSE Append(acc.results, [key |-> contentKey, value |-> result]),
                    sources |-> SetAdd(acc.sources, result.source)]
       IN  FoldResults_SourceAlways(next, Tail(results))

\* allResults.set(contentKey, result) without the has() test: a later result
\* replaces the value stored under its key
RECURSIVE FoldResults_Overwrite(_, _)
FoldResults_Overwrite(acc, results) ==
  IF results = <<>> THEN acc
  ELSE LET result == Head(results)
           contentKey == hashContent(result.content)
           next == IF MapHas(acc.results, contentKey)
                     THEN [results |-> [k \in 1..Len(acc.results) |->
                                          IF acc.results[k].key = contentKey
                                            THEN [key |-> contentKey, value |-> result]
                                            ELSE acc.results[k]],
                           sources |-> SetAdd(acc.sources, result.source)]
                     ELSE [results |-> Append(acc.results, [key |-> contentKey, value |-> result]),
                           sources |-> SetAdd(acc.sources, result.source)]
       IN  FoldResults_Overwrite(next, Tail(results))

\* the membership test looking only at the entries of the response at hand:
\* a result is dropped when the same response held its signature before
RECURSIVE FoldFrom(_, _, _)
FoldFrom(acc, results, base) ==
  IF results = <<>> THEN acc
  ELSE LET result == Head(results)
           contentKey == hashContent(result.content)
           own == SubSeq(acc.results, base + 1, Len(acc.results))
           next == IF MapHas(own, contentKey) THEN acc
                   ELSE [results |-> Append(acc.results, [key |-> contentKey, value |-> result]),
                         sources |-> SetAdd(acc.sources, result.source)]
       IN  FoldFrom(next, Tail(results), base)

FoldResults_PerResponse(acc, results) == FoldFrom(acc, results, Len(acc.results))

\* the loop over response.results: acc is [results |-> Map, sources |-> Set]
RECURSIVE FoldResults(_, _)
FoldResults(acc, results) ==
  IF results = <<>> THEN acc
  ELSE LET result == Head(results)
           contentKey == hashContent(result.content)
           next == IF MapHas(acc.results, contentKey) THEN acc
                   ELSE [results |-> Append(acc.results, [key |-> contentKey, value |-> result]),
                         sources |-> SetAdd(acc.sources, result.source)]
       IN  FoldResults(next, Tail(results))

\* an element placed before the elements of equal score
RECURSIVE InsertRanked_Before(_, _)
InsertRanked_Before(sorted, r) ==
  IF sorted = <<>> THEN <<r>>
  ELSE IF Head(sorted).score > r.score
         THEN <<Head(sorted)>> \o InsertRanked_Before(Tail(sorted), r)
         ELSE <<r>> \o sorted

\* results.sort((a, b) => b.score - a.score): Array.prototype.sort is
\* stable, so this is insertion of each element after the elements that
\* do not rank below it
RECURSIVE InsertRanked(_, _)
InsertRanked(sorted, r) ==
  IF sorted = <<>> THEN <<r>>
  ELSE IF Head(sorted).score >= r.score
         THEN <<Head(sorted)>> \o InsertRanked(Tail(sorted), r)
         ELSE <<r>> \o sorted

\* the sort left out
rankResults_Unsorted(results) == results

RECURSIVE rankResults(_)
rankResults(results) ==
  IF results = <<>> THEN <<>>
  ELSE InsertRanked(rankResults(SubSeq(results, 1, Len(results) - 1)), results[Len(results)])

\* source segments joined by '/'
RECURSIVE JoinSlash(_)
JoinSlash(segs) ==
  IF Len(segs) = 1 THEN <<segs[1]>> ELSE <<segs[1], "/">> \o JoinSlash(Tail(segs))

\* source.split('/') last element, or the source itself when that is empty
extractSourceName(source) ==
  IF source[Len(source)] # "" THEN <<source[Len(source)]>> ELSE JoinSlash(source)

\* (score * 100).toFixed(1) for a score counted in quarters
ToFixed1(score) == Digits(score * 25) \o <<".", "0">>

RECURSIVE FormatBlocks(_, _)
FormatBlocks(results, k) ==
  IF k > Len(results) THEN <<>>
  ELSE <<"### Document ">> \o Digits(k) \o <<" [">>
       \o extractSourceName(results[k].source)
       \o <<"]\n**Relevance Score:** ">> \o ToFixed1(results[k].score) \o <<"%\n\n">>
       \o results[k].content \o <<"\n\n---\n\n">>
       \o FormatBlocks(results, k + 1)

\* the test for an empty list left out
formatContext_HeaderAlways(results, originalQuery) ==
  <<"## Retrieved Knowledge Base Context\n\nThe following ... question: \"">>
    \o originalQuery \o <<"\"\n\n---\n\n">>
    \o FormatBlocks(results, 1)
    \o <<"\n## Instructions for Using This Context\n\n1. ... 5. ...\n\n---\n\n">>

formatContext(results, originalQuery) ==
  IF Len(results) = 0 THEN <<>>
  ELSE <<"## Retrieved Knowledge Base Context\n\nThe following ... question: \"">>
       \o originalQuery \o <<"\"\n\n---\n\n">>
       \o FormatBlocks(results, 1)
       \o <<"\n## Instructions for Using This Context\n\n1. ... 5. ...\n\n---\n\n">>

\* ---- state -------------------------------------------------------------
VARIABLES
  config,      \* the process-wide config object
  qdClient,    \* QueryDecompositionService.client: "null" or "client"
  kbClient,    \* BedrockKBService.client: "null" or "client"
  pc,          \* where the run stands: idle, decomposing, retrieving, awaitKB, done, thrown
  entry,       \* the method the caller invoked: retrieveContext or augmentPrompt
  query,       \* its first argument
  onEvent,     \* its second argument: none, or a callback, whose invocations may throw
  events,      \* the events handed to onEvent so far
  completion,  \* <<outcome>> of the messages.create call of this run, <<>> if none
  decomposed,  \* <<DecomposedQueries>> once decomposeQuery has resolved
  i,           \* loop index of retrieveContext
  inFlight,    \* the sub-query numbers whose retrieve() call is awaited
  kbCalls,     \* the retrieve() calls of this run that have settled
  allResults,  \* Map contentKey -> RetrievalResult
  allSources,  \* Set of source
  ranked,      \* rankedResults
  ret,         \* <<RAGContext>> once retrieveContext has resolved
  augmented    \* <<string>> once augmentPrompt has resolved

\* ClaudeAgentService.processMessage, up to its query() call
VARIABLES
  ragMode,       \* config.ragMode
  initialized,   \* RAGService.initialized
  agentPc,       \* where processMessage stands
  userMsg,       \* its userMessage argument, <<>> when no call is under way
  stream,        \* what processMessage itself has passed to onStream
  ragFailure,    \* what the catch block of the pre_retrieval branch caught
  thrownBy,      \* what made processMessage reject
  prompt         \* <<prompt>> once query() has been called

agentVars == <<ragMode, initialized, agentPc, userMsg, stream, ragFailure, thrownBy, prompt>>

\* ClaudeAgentService.processMessage, its loop over the messages of query()
VARIABLES
  streamPc,        \* where the loop stands
  received,        \* the SDK messages the loop has taken so far
  newSessionId,
  fullResponse,
  currentThinking,
  out,             \* what the loop has passed to onStream
  returned         \* <<value>> once processMessage has resolved

streamVars == <<streamPc, received, newSessionId, fullResponse, currentThinking, out, returned>>

\* two retrieveContext calls under way in one process: the locals of each
VARIABLES runs

\* one GET /chat/stream request: the handler, the processMessage call it
\* awaits, and the file watcher that call registers
VARIABLES
  chatPc,             \* where the handler stands
  storedSessionId,    \* the sessionId of the user's record in sessions.json
  existingSessionId,  \* const existingSessionId of the handler
  chatNewSessionId,   \* let newSessionId of the processMessage call
  chatResult,         \* <<result>> once processMessage has resolved
  written,            \* the events passed to res.write before res.end()
  ended,              \* res.end() has been called
  lateWrites,         \* the events passed to res.write after res.end()
  watching,           \* ArtifactService.watchers holds the callback of this call
  statPending,        \* invocations of that callback awaiting fs.stat
  fileEvents          \* files added to the output directory so far

chatVars == <<chatPc, storedSessionId, existingSessionId, chatNewSessionId, chatResult, written,
              ended, lateWrites, watching, statPending, fileEvents>>

\* StorageService calls under way in one process, and the sessions file
VARIABLES
  file,       \* sessions.json: "missing", or the parsed array of records
  storageCalls, \* per caller: the call under way and its local `sessions`
  resolved    \* per user: the messages of the addMessage calls that resolved
              \* since the user's last clearUserSession resolved

storageVars == <<file, storageCalls, resolved>>

serverVars == <<chatVars, storageVars>>

others == <<agentVars, streamVars, runs, serverVars>>

\* the locals of a retrieveContext call that has not started
RunIdle ==
  [pc |-> "idle", query |-> <<>>, decomposed |-> <<>>, i |-> 0, kbCalls |-> <<>>,
   allResults |-> <<>>, allSources |-> <<>>, ranked |-> <<>>, ret |-> <<>>]

RunIds == {1, 2}

\* no request is being handled, and no user has a stored session
ChatIdle ==
  /\ chatPc = "idle"
  /\ storedSessionId = "undefined"
  /\ existingSessionId = "undefined"
  /\ chatNewSessionId = "undefined"
  /\ chatResult = <<>>
  /\ written = <<>>
  /\ ended = FALSE
  /\ lateWrites = <<>>
  /\ watching = FALSE
  /\ statPending = 0
  /\ fileEvents = 0

\* the callers of StorageService, each working for a user of its own
Callers == {"user-1", "user-2"}

\* a caller between two calls
CallIdle == [pc |-> "idle", op |-> "none", content |-> "", sessions |-> <<>>, n |-> 0]

\* no StorageService call is under way and sessions.json does not exist
StorageIdle ==
  /\ file = [exists |-> FALSE, sessions |-> <<>>]
  /\ storageCalls = [c \in Callers |-> CallIdle]
  /\ resolved = [c \in Callers |-> <<>>]

\* no processMessage loop and no pair of retrieveContext calls is under way
LoopIdle ==
  /\ streamPc = "idle"
  /\ received = <<>>
  /\ newSessionId = "undefined"
  /\ fullResponse = <<>>
  /\ currentThinking = <<>>
  /\ out = <<>>
  /\ returned = <<>>
  /\ runs = [r \in RunIds |-> RunIdle]

\* nothing but the RAG run of the first group of variables is under way
OthersIdle ==
  /\ ChatIdle
  /\ StorageIdle
  /\ streamPc = "idle"
  /\ received = <<>>
  /\ newSessionId = "undefined"
  /\ fullResponse = <<>>
  /\ currentThinking = <<>>
  /\ out = <<>>
  /\ returned = <<>>
  /\ runs = [r \in RunIds |-> RunIdle]

vars == <<config, qdClient, kbClient, pc, entry, query, onEvent, events, completion,
          decomposed, i, inFlight, kbCalls, allResults, allSources, ranked, ret, augmented,
          others>>

ragVars == <<config, qdClient, kbClient, pc, entry, query, onEvent, events, completion,
             decomposed, i, inFlight, kbCalls, allResults, allSources, ranked, ret, augmented>>

\* the locals of the single retrieveContext / augmentPrompt call
ragLocals == <<pc, entry, query, onEvent, events, completion, decomposed, i, inFlight,
               kbCalls, allResults, allSources, ranked, ret, augmented>>

\* no processMessage call is under way
AgentIdle ==
  /\ agentPc = "idle"
  /\ userMsg = <<>>
  /\ stream = <<>>
  /\ ragFailure = "none"
  /\ thrownBy = "none"
  /\ prompt = <<>>

Init ==
  /\ config \in Configs
  /\ qdClient = "null"
  /\ kbClient = "null"
  /\ pc = "idle"
  /\ entry = "none"
  /\ query = <<>>
  /\ onEvent = "none"
  /\ events = <<>>
  /\ completion = <<>>
  /\ decomposed = <<>>
  /\ i = 0
  /\ inFlight = {}
  /\ kbCalls = <<>>
  /\ allResults = <<>>
  /\ allSources = <<>>
  /\ ranked = <<>>
  /\ ret = <<>>
  /\ augmented = <<>>
  /\ ragMode = "mcp"
  /\ initialized = FALSE
  /\ AgentIdle
  /\ OthersIdle

\* onEvent?.(e): nothing happens without a callback
Emit(cb, evs, e) == IF cb = "none" THEN evs ELSE Append(evs, e)

\* whether this invocation of the callback throws
CbThrows(cb) == IF cb = "callback" THEN BOOLEAN ELSE {FALSE}

\* the query reported as its own sub-query
ZeroContext_Echo(q) ==
  [query |-> q, context |-> <<>>, sources |-> <<>>, subQueries |-> <<q>>,
   totalResults |-> 0, processingTime |-> 0]

ZeroContext(q) ==
  [query |-> q, context |-> <<>>, sources |-> <<>>, subQueries |-> <<>>,
   totalResults |-> 0, processingTime |-> 0]

\* the context appended instead of prepended
Augment_Appended(ragContext, userMessage) ==
  IF ragContext.context = <<>> THEN userMessage
  ELSE userMessage \o <<"\n\n## User Question\n\n">> \o ragContext.context

\* the string augmentPrompt builds from a resolved RAGContext
Augment(ragContext, userMessage) ==
  IF ragContext.context = <<>> THEN userMessage
  ELSE ragContext.context \o <<"\n\n## User Question\n\n">> \o userMessage

\* ---- RAGService.retrieveContext / augmentPrompt -----------------------
\* The caller invokes retrieveContext(q, cb) or augmentPrompt(q, cb); the
\* step runs up to the first await (decomposeQuery).
Invoke(method, q, cb) ==
  /\ pc = "idle"
  /\ entry' = method
  /\ query' = q
  /\ onEvent' = cb
  /\ UNCHANGED <<config, qdClient, kbClient, completion, decomposed, i, inFlight, kbCalls,
                 allResults, allSources, ranked>>
  /\ IF ~isEnabled(config)
       THEN /\ pc' = "done"
            /\ events' = events
            /\ IF method = "retrieveContext"
                 THEN ret' = <<ZeroContext(q)>> /\ augmented' = augmented
                 ELSE ret' = ret /\ augmented' = <<q>>
       ELSE /\ events' = Emit(cb, events, [type |-> "decomposition"])
            /\ UNCHANGED <<ret, augmented>>
            /\ \E throws \in CbThrows(cb) :
                 pc' = IF throws THEN "thrown" ELSE "decomposing"

CallRetrieveContext ==
  /\ \E q \in Queries, cb \in {"none", "callback"} : Invoke("retrieveContext", q, cb)
  /\ UNCHANGED others

CallAugmentPrompt ==
  /\ \E q \in Queries, cb \in {"none", "callback"} : Invoke("augmentPrompt", q, cb)
  /\ UNCHANGED others

\* decomposeQuery resolves; retrieveContext logs and reports the sub-queries
Decompose ==
  /\ pc = "decomposing"
  /\ LET client == IF qdClient = "null" THEN QDInitialize(qdClient, config) ELSE qdClient
     IN  /\ qdClient' = client
         /\ \E outcome \in CompletionOutcomes :
              /\ client = "null" => outcome = [kind |-> "throws", n |-> 0]
              /\ completion' = IF client = "null" THEN <<>> ELSE <<outcome>>
              /\ LET d == decomposeQuery(query, client, config, outcome)
                 IN  /\ decomposed' = <<d>>
                     /\ events' = Emit(onEvent, events,
                                       [type |-> "decomposition",
                                        subQueries |-> d.subQueries,
                                        reasoning |-> d.reasoning])
  /\ i' = 0
  /\ \E throws \in CbThrows(onEvent) :
       pc' = IF throws THEN "thrown" ELSE "retrieving"
  /\ UNCHANGED <<config, kbClient, entry, query, onEvent, inFlight, kbCalls,
                 allResults, allSources, ranked, ret, augmented, others>>

SubQueries == decomposed[1].subQueries

\* the retrieval event counting from 0
RetrievalEvent_ZeroBased(idx, subQueries) ==
  [type |-> "retrieval", index |-> idx, total |-> Len(subQueries),
   subQuery |-> substring(subQueries[idx + 1], 0, 50)]

\* the retrieval event of loop round idx: "Searching knowledge base
\* (idx+1/total): <first 50 characters of the sub-query>..."
RetrievalEvent(idx, subQueries) ==
  [type |-> "retrieval", index |-> idx + 1, total |-> Len(subQueries),
   subQuery |-> substring(subQueries[idx + 1], 0, 50)]

\* the two numbers of the aggregation event exchanged
AggregationEvent_Swapped(results, subQueries) ==
  [type |-> "aggregation", unique |-> Len(subQueries), searches |-> Len(results)]

\* the aggregation event: "Aggregating <allResults.size> unique results
\* from <subQueries.length> searches..."
AggregationEvent(results, subQueries) ==
  [type |-> "aggregation", unique |-> Len(results), searches |-> Len(subQueries)]

\* the call issued without awaiting it: the loop goes on at once
AfterIssue_NoAwait(idx) == [pc |-> "retrieving", i |-> idx + 1]

\* await BedrockKBService.retrieve(subQuery): the run is suspended at
\* sub-query idx until the call settles
AfterIssue(idx) == [pc |-> "awaitKB", i |-> idx]

\* loop head for sub-query i: the retrieval event, then retrieve() up to
\* its await of client.send
RetrieveIssue ==
  /\ pc = "retrieving"
  /\ i < Len(SubQueries)
  /\ events' = Emit(onEvent, events, RetrievalEvent(i, SubQueries))
  /\ \E throws \in CbThrows(onEvent) :
       IF throws
         THEN pc' = "thrown" /\ kbClient' = kbClient /\ UNCHANGED <<i, inFlight>>
         ELSE /\ pc' = AfterIssue(i).pc
              /\ i' = AfterIssue(i).i
              /\ inFlight' = inFlight \cup {i + 1}
              /\ kbClient' = IF kbClient = "null" THEN KBInitialize(kbClient, config)
                             ELSE kbClient
  /\ UNCHANGED <<config, qdClient, entry, query, onEvent, completion, decomposed,
                 kbCalls, allResults, allSources, ranked, ret, augmented, others>>

\* the try/catch around retrieve() and the loop increment: where the run
\* stands after the call for sub-query idx (of n) has settled
\* the catch block rethrowing
LoopAfter_Rethrow(threw, idx, n) ==
  [pc |-> IF threw THEN "thrown" ELSE "retrieving", i |-> idx + 1]

\* the catch block leaving the loop
LoopAfter_Break(threw, idx, n) ==
  [pc |-> "retrieving", i |-> IF threw THEN n ELSE idx + 1]

\* the catch block trying the same sub-query again
LoopAfter_Retry(threw, idx, n) ==
  [pc |-> "retrieving", i |-> IF threw THEN idx ELSE idx + 1]

\* the catch block never handing control back to the loop
LoopAfter_Stuck(threw, idx, n) ==
  [pc |-> IF threw THEN "caught" ELSE "retrieving", i |-> idx + 1]

LoopAfter(threw, idx, n) == [pc |-> "retrieving", i |-> idx + 1]

\* the entries the knowledge base has returned to the calls so far
RECURSIVE RawCount(_)
RawCount(calls) ==
  IF calls = <<>> THEN 0 ELSE Len(Head(calls).raw) + RawCount(Tail(calls))

\* retrieve() settles; on success its results are folded in, on failure the
\* catch block logs; either way the loop moves on
RetrieveReturn ==
  /\ pc = "awaitKB"
  /\ \E outcome \in KBOutcomes :
       /\ kbClient = "null" => outcome.kind = "throws"
       /\ RawCount(kbCalls) + Len(outcome.items) <= MaxRetrieved
       /\ LET r == KBRetrieve(kbClient, config, outcome)
              acc == IF r.threw THEN [results |-> allResults, sources |-> allSources]
                     ELSE FoldResults([results |-> allResults, sources |-> allSources],
                                      r.results)
          IN  /\ allResults' = acc.results
              /\ allSources' = acc.sources
              /\ kbCalls' = Append(kbCalls, [subQuery |-> SubQueries[i + 1],
                                             threw |-> r.threw,
                                             raw |-> outcome.items,
                                             results |-> r.results])
              /\ i' = LoopAfter(r.threw, i, Len(SubQueries)).i
              /\ pc' = LoopAfter(r.threw, i, Len(SubQueries)).pc
  /\ inFlight' = inFlight \ {i + 1}
  /\ UNCHANGED <<config, qdClient, kbClient, entry, query, onEvent, events, completion,
                 decomposed, ranked, ret, augmented, others>>

\* after the loop: aggregation event, rank, format, complete event, return;
\* augmentPrompt then builds its string from the resolved context
Finish ==
  /\ pc = "retrieving"
  /\ i >= Len(SubQueries)
  /\ \E throws1 \in CbThrows(onEvent), throws2 \in CbThrows(onEvent) :
       LET elapsed == Elapsed(kbCalls)
           rankedResults == rankResults(MapValues(allResults))
           context == formatContext(rankedResults, query)
           e1 == Emit(onEvent, events, AggregationEvent(allResults, SubQueries))
           e2 == Emit(onEvent, e1,
                      [type |-> "complete", totalResults |-> Len(rankedResults),
                       sources |-> allSources, processingTime |-> elapsed])
           result == [query |-> query, context |-> context, sources |-> allSources,
                      subQueries |-> SubQueries, totalResults |-> Len(rankedResults),
                      processingTime |-> elapsed]
       IN  IF throws1
             THEN /\ throws2 = FALSE
                  /\ pc' = "thrown"
                  /\ events' = e1
                  /\ UNCHANGED <<ranked, ret, augmented>>
           ELSE IF throws2
             THEN /\ pc' = "thrown"
                  /\ events' = e2
                  /\ ranked' = rankedResults
                  /\ UNCHANGED <<ret, augmented>>
           ELSE /\ pc' = "done"
                /\ events' = e2
                /\ ranked' = rankedResults
                /\ ret' = <<result>>
                /\ augmented' = IF entry = "augmentPrompt"
                                  THEN <<Augment(result, query)>> ELSE augmented
  /\ UNCHANGED <<config, qdClient, kbClient, entry, query, onEvent, completion,
                 decomposed, i, inFlight, kbCalls, allResults, allSources, others>>

\* the caller has taken the result (or the exception); the locals of the
\* run are gone, the static clients stay
Release ==
  /\ pc \in {"done", "thrown"}
  /\ pc' = "idle"
  /\ entry' = "none"
  /\ query' = <<>>
  /\ onEvent' = "none"
  /\ events' = <<>>
  /\ completion' = <<>>
  /\ decomposed' = <<>>
  /\ i' = 0
  /\ inFlight' = {}
  /\ kbCalls' = <<>>
  /\ allResults' = <<>>
  /\ allSources' = <<>>
  /\ ranked' = <<>>
  /\ ret' = <<>>
  /\ augmented' = <<>>
  /\ UNCHANGED <<config, qdClient, kbClient, others>>

Next ==
  \/ CallRetrieveContext
  \/ CallAugmentPrompt
  \/ Decompose
  \/ RetrieveIssue
  \/ RetrieveReturn
  \/ Finish
  \/ Release

Spec == Init /\ [][Next]_vars

TypeOK ==
  /\ pc \in {"idle", "decomposing", "retrieving", "awaitKB", "done", "thrown"}
  /\ Len(ret) <= 1

\* ---- ClaudeAgentService.processMessage (RAG preparation) ---------------
\* values of RAG_MODE: the three modes and one that is none of them
RagModes == {"mcp", "custom_tool", "pre_retrieval", "hybrid"}

\* onStream(e) as processMessage calls it
Stream(evs, e) == Append(evs, e)

\* the catch block of the pre_retrieval branch rethrowing
CatchRagFailure_Rethrow(msg, streamThrows) ==
  [agentPc |-> "thrown", thrownBy |-> "rag", prompt |-> <<>>]

\* the catch block of the pre_retrieval branch, its onStream call and what
\* follows it: query() with augmentedMessage still equal to userMessage
CatchRagFailure(msg, streamThrows) ==
  IF streamThrows
    THEN [agentPc |-> "thrown", thrownBy |-> "onStream", prompt |-> <<>>]
    ELSE [agentPc |-> "querying", thrownBy |-> "none", prompt |-> <<msg>>]

\* processMessage from its RAG preparation up to the first await of the
\* selected branch, or up to query() when the branch has none
ProcessMessage ==
  /\ agentPc = "idle"
  /\ pc = "idle"
  /\ \E msg \in Queries, t1 \in BOOLEAN, t2 \in BOOLEAN, t3 \in BOOLEAN :
       /\ userMsg' = msg
       /\ IF ~config.enableRag
            THEN /\ t1 = FALSE /\ t2 = FALSE /\ t3 = FALSE
                 /\ agentPc' = "querying"
                 /\ prompt' = <<msg>>
                 /\ UNCHANGED <<stream, ragFailure, thrownBy, kbClient>>
          ELSE IF t1
            THEN /\ t2 = FALSE /\ t3 = FALSE
                 /\ stream' = Stream(stream, "status: initializing")
                 /\ agentPc' = "thrown"
                 /\ thrownBy' = "onStream"
                 /\ UNCHANGED <<ragFailure, prompt, kbClient>>
          ELSE IF ragMode \notin {"mcp", "custom_tool", "pre_retrieval"}
            THEN /\ t2 = FALSE /\ t3 = FALSE
                 /\ stream' = Stream(stream, "status: initializing")
                 /\ agentPc' = "thrown"
                 /\ thrownBy' = "ragMode"
                 /\ UNCHANGED <<ragFailure, prompt, kbClient>>
          ELSE IF ragMode = "mcp"
            THEN /\ t3 = FALSE
                 /\ stream' = Stream(Stream(stream, "status: initializing"), "rag_status: mcp")
                 /\ agentPc' = IF t2 THEN "thrown" ELSE "querying"
                 /\ thrownBy' = IF t2 THEN "onStream" ELSE "none"
                 /\ prompt' = IF t2 THEN <<>> ELSE <<msg>>
                 /\ UNCHANGED <<ragFailure, kbClient>>
          ELSE IF ragMode = "custom_tool"
            THEN /\ t3 = FALSE
                 /\ stream' = Stream(Stream(stream, "status: initializing"),
                                     "rag_status: custom_tool")
                 /\ kbClient' = KBInitialize(kbClient, config)
                 /\ agentPc' = IF t2 THEN "thrown" ELSE "querying"
                 /\ thrownBy' = IF t2 THEN "onStream" ELSE "none"
                 /\ prompt' = IF t2 THEN <<>> ELSE <<msg>>
                 /\ UNCHANGED ragFailure
          ELSE IF t2
            THEN LET c == CatchRagFailure(msg, t3)
                 IN  /\ stream' = Stream(Stream(Stream(stream, "status: initializing"),
                                                "status: retrieving"), "status: failed")
                     /\ ragFailure' = "onStream"
                     /\ agentPc' = c.agentPc
                     /\ thrownBy' = c.thrownBy
                     /\ prompt' = c.prompt
                     /\ UNCHANGED kbClient
          ELSE /\ t3 = FALSE
               /\ stream' = Stream(Stream(stream, "status: initializing"), "status: retrieving")
               /\ agentPc' = "initializing"
               /\ UNCHANGED <<ragFailure, thrownBy, prompt, kbClient>>
  /\ UNCHANGED <<config, qdClient, pc, entry, query, onEvent, events, completion,
                 decomposed, i, inFlight, kbCalls, allResults, allSources, ranked, ret,
                 augmented, ragMode, initialized, streamVars, runs, serverVars>>

\* the import resolves and RAGService.initialize() runs: it sets up both
\* clients once, or something in it (the import, a client constructor)
\* throws and the catch block takes over
AgentInitialize ==
  /\ agentPc = "initializing"
  /\ \E initThrows \in BOOLEAN, t \in BOOLEAN :
       IF initThrows
         THEN LET c == CatchRagFailure(userMsg, t)
              IN  /\ ~initialized
                  /\ stream' = Stream(stream, "status: failed")
                  /\ ragFailure' = "initialize"
                  /\ agentPc' = c.agentPc
                  /\ thrownBy' = c.thrownBy
                  /\ prompt' = c.prompt
                  /\ UNCHANGED <<initialized, kbClient, qdClient>>
         ELSE /\ t = FALSE
              /\ initialized' = TRUE
              /\ kbClient' = IF initialized THEN kbClient ELSE KBInitialize(kbClient, config)
              /\ qdClient' = IF initialized THEN qdClient ELSE QDInitialize(qdClient, config)
              /\ agentPc' = "initialized"
              /\ UNCHANGED <<stream, ragFailure, thrownBy, prompt>>
  /\ UNCHANGED <<config, pc, entry, query, onEvent, events, completion,
                 decomposed, i, inFlight, kbCalls, allResults, allSources, ranked, ret,
                 augmented, ragMode, userMsg, streamVars, runs, serverVars>>

\* RAGService.augmentPrompt(userMessage, callback) is called; the callback
\* passes each event on to onStream
AgentAugment ==
  /\ agentPc = "initialized"
  /\ Invoke("augmentPrompt", userMsg, "callback")
  /\ agentPc' = "augmenting"
  /\ UNCHANGED <<ragMode, initialized, userMsg, stream, ragFailure, thrownBy, prompt,
                 streamVars, runs, serverVars>>

\* augmentPrompt has settled: query() is called with its result, or the
\* catch block runs
AgentResume ==
  /\ agentPc = "augmenting"
  /\ pc \in {"done", "thrown"}
  /\ \E t \in BOOLEAN :
       IF pc = "done"
         THEN /\ t = FALSE
              /\ agentPc' = "querying"
              /\ prompt' = augmented
              /\ UNCHANGED <<stream, ragFailure, thrownBy>>
         ELSE LET c == CatchRagFailure(userMsg, t)
              IN  /\ stream' = Stream(stream, "status: failed")
                  /\ ragFailure' = "augmentPrompt"
                  /\ agentPc' = c.agentPc
                  /\ thrownBy' = c.thrownBy
                  /\ prompt' = c.prompt
  /\ UNCHANGED <<config, qdClient, kbClient, pc, entry, query, onEvent, events, completion,
                 decomposed, i, inFlight, kbCalls, allResults, allSources, ranked, ret,
                 augmented, ragMode, initialized, userMsg, streamVars, runs, serverVars>>

\* the call is over (query() issued, or processMessage rejected); its
\* locals and those of the RAG run are gone, the statics stay
AgentRelease ==
  /\ agentPc \in {"querying", "thrown"}
  /\ agentPc' = "idle"
  /\ userMsg' = <<>>
  /\ stream' = <<>>
  /\ ragFailure' = "none"
  /\ thrownBy' = "none"
  /\ prompt' = <<>>
  /\ pc' = "idle"
  /\ entry' = "none"
  /\ query' = <<>>
  /\ onEvent' = "none"
  /\ events' = <<>>
  /\ completion' = <<>>
  /\ decomposed' = <<>>
  /\ i' = 0
  /\ inFlight' = {}
  /\ kbCalls' = <<>>
  /\ allResults' = <<>>
  /\ allSources' = <<>>
  /\ ranked' = <<>>
  /\ ret' = <<>>
  /\ augmented' = <<>>
  /\ UNCHANGED <<config, qdClient, kbClient, ragMode, initialized, streamVars, runs, serverVars>>

InitAgent ==
  /\ config \in Configs
  /\ qdClient = "null"
  /\ kbClient = "null"
  /\ pc = "idle"
  /\ entry = "none"
  /\ query = <<>>
  /\ onEvent = "none"
  /\ events = <<>>
  /\ completion = <<>>
  /\ decomposed = <<>>
  /\ i = 0
  /\ inFlight = {}
  /\ kbCalls = <<>>
  /\ allResults = <<>>
  /\ allSources = <<>>
  /\ ranked = <<>>
  /\ ret = <<>>
  /\ augmented = <<>>
  /\ ragMode \in RagModes
  /\ initialized = FALSE
  /\ AgentIdle
  /\ OthersIdle

NextAgent ==
  \/ ProcessMessage
  \/ AgentInitialize
  \/ AgentAugment
  \/ Decompose
  \/ RetrieveIssue
  \/ RetrieveReturn
  \/ Finish
  \/ AgentResume
  \/ AgentRelease

SpecAgent == InitAgent /\ [][NextAgent]_vars

\* ---- ClaudeAgentService.processMessage (response loop) ----------------
MaxMessages == 3

TextBlock(text) == [type |-> "text", text |-> text, name |-> ""]
ToolUseBlock(name) == [type |-> "tool_use", text |-> <<>>, name |-> name]

\* an SDK message, the members the loop reads: thinking is <<>> when the
\* message carries none, isArray tells whether message.content is an array
SDKMessage(type, subtype, session_id, thinking, isArray, content) ==
  [type |-> type, subtype |-> subtype, session_id |-> session_id,
   thinking |-> thinking, isArray |-> isArray, content |-> content]

\* what the iterator of query() may yield
SDKMessages ==
  { SDKMessage("system", "init", "s1", <<>>, FALSE, <<>>),
    SDKMessage("system", "init", "s2", <<>>, FALSE, <<>>),
    SDKMessage("system", "status", "", <<>>, FALSE, <<>>),
    SDKMessage("assistant", "", "", <<>>, TRUE, <<TextBlock(<<"a">>)>>),
    SDKMessage("assistant", "", "", <<>>, TRUE,
               <<TextBlock(<<"b">>), ToolUseBlock("bash"), TextBlock(<<"c", "d">>)>>),
    SDKMessage("assistant", "", "", <<>>, TRUE, <<ToolUseBlock("bash")>>),
    SDKMessage("assistant", "", "", <<>>, FALSE, <<>>),
    SDKMessage("assistant", "", "", <<"t">>, TRUE, <<TextBlock(<<"a">>)>>),
    SDKMessage("assistant", "", "", <<"t", "u">>, TRUE, <<>>),
    SDKMessage("result", "", "", <<>>, FALSE, <<>>),
    SDKMessage("tool_progress", "", "", <<>>, FALSE, <<>>) }

\* an event as onStream receives it: delta is the text of a content_delta
\* or thinking event, the tool name of a tool_use event
StreamEvent(type, delta) == [type |-> type, delta |-> delta]

\* onStream(e) inside the loop: st holds the locals of processMessage, the
\* events passed on so far, the number of onStream calls made for the
\* current message, and whether one of them threw; the call numbered
\* throwAt throws
Call(st, e, throwAt) ==
  IF st.threw THEN st
  ELSE [st EXCEPT !.out = Append(@, e),
                  !.calls = @ + 1,
                  !.threw = (st.calls + 1 = throwAt)]

\* a text block put in front of the response
ResponseAfter_Prepend(full, block) == block.text \o full

\* fullResponse += block.text
ResponseAfter(full, block) == full \o block.text

\* for (const block of content)
RECURSIVE HandleBlocks(_, _, _)
HandleBlocks(st, blocks, throwAt) ==
  IF blocks = <<>> \/ st.threw THEN st
  ELSE LET block == Head(blocks)
           next == IF block.type = "text"
                     THEN Call([st EXCEPT !.fullResponse = ResponseAfter(@, block)],
                               StreamEvent("content_delta", block.text), throwAt)
                   ELSE IF block.type = "tool_use"
                     THEN Call(Call(st, StreamEvent("tool_use", <<block.name>>), throwAt),
                               StreamEvent("status", <<>>), throwAt)
                   ELSE st
       IN  HandleBlocks(next, Tail(blocks), throwAt)

\* the thinking of an assistant message: only what was not streamed yet
HandleThinking(st, m, throwAt) ==
  IF st.threw \/ m.thinking = <<>> \/ m.thinking = st.currentThinking THEN st
  ELSE LET delta == SubSeq(m.thinking, Len(st.currentThinking) + 1, Len(m.thinking))
       IN  IF delta = <<>> THEN st
           ELSE Call([st EXCEPT !.currentThinking = m.thinking],
                     StreamEvent("thinking", delta), throwAt)

\* the body of the loop for one message
HandleMessage(st, m, throwAt) ==
  LET s1 == IF m.type = "system" /\ m.subtype = "init"
              THEN Call([st EXCEPT !.newSessionId = m.session_id],
                        StreamEvent("status", <<>>), throwAt)
              ELSE st
      s2 == IF m.type = "system" /\ m.subtype = "status"
              THEN Call(s1, StreamEvent("status", <<>>), throwAt) ELSE s1
      s3 == IF m.type = "assistant"
              THEN LET th == HandleThinking(s2, m, throwAt)
                   IN  IF m.isArray THEN HandleBlocks(th, m.content, throwAt) ELSE th
              ELSE s2
      s4 == IF m.type = "result"
              THEN Call(s3, StreamEvent("tool_result", <<>>), throwAt) ELSE s3
  IN  IF m.type = "tool_progress"
        THEN Call(s4, StreamEvent("status", <<>>), throwAt) ELSE s4

\* the locals of processMessage as HandleMessage takes them
Locals ==
  [newSessionId |-> newSessionId, fullResponse |-> fullResponse,
   currentThinking |-> currentThinking, out |-> out, calls |-> 0, threw |-> FALSE]

\* query() is called and the locals are set up
StartStream ==
  /\ streamPc = "idle"
  /\ streamPc' = "streaming"
  /\ UNCHANGED <<received, newSessionId, fullResponse, currentThinking, out, returned>>
  /\ UNCHANGED <<ragVars, agentVars, runs, serverVars>>

\* the iterator yields a message and the loop body runs; onStream may throw
\* at any of its calls, which ends processMessage with that exception
NextMessage ==
  /\ streamPc = "streaming"
  /\ Len(received) < MaxMessages
  /\ \E m \in SDKMessages :
       \E throwAt \in 0..(Len(HandleMessage(Locals, m, 0).out) - Len(out)) :
         LET st == HandleMessage(Locals, m, throwAt)
         IN  /\ received' = Append(received, m)
             /\ newSessionId' = st.newSessionId
             /\ fullResponse' = st.fullResponse
             /\ currentThinking' = st.currentThinking
             /\ out' = st.out
             /\ streamPc' = IF st.threw THEN "thrown" ELSE "streaming"
  /\ UNCHANGED returned
  /\ UNCHANGED <<ragVars, agentVars, runs, serverVars>>

\* the iterator is exhausted: processMessage returns
EndStream ==
  /\ streamPc = "streaming"
  /\ returned' = << [sessionId |-> newSessionId, response |-> fullResponse] >>
  /\ streamPc' = "returned"
  /\ UNCHANGED <<received, newSessionId, fullResponse, currentThinking, out>>
  /\ UNCHANGED <<ragVars, agentVars, runs, serverVars>>

\* the iterator rejects: processMessage rejects
IteratorThrows ==
  /\ streamPc = "streaming"
  /\ streamPc' = "thrown"
  /\ UNCHANGED <<received, newSessionId, fullResponse, currentThinking, out, returned>>
  /\ UNCHANGED <<ragVars, agentVars, runs, serverVars>>

\* the caller has taken the value or the exception
StreamRelease ==
  /\ streamPc \in {"returned", "thrown"}
  /\ streamPc' = "idle"
  /\ received' = <<>>
  /\ newSessionId' = "undefined"
  /\ fullResponse' = <<>>
  /\ currentThinking' = <<>>
  /\ out' = <<>>
  /\ returned' = <<>>
  /\ UNCHANGED <<ragVars, agentVars, runs, serverVars>>

NextStream ==
  \/ StartStream
  \/ NextMessage
  \/ EndStream
  \/ IteratorThrows
  \/ StreamRelease

\* config is read by nothing in the loop; one value stands for all
InitStream ==
  /\ Init
  /\ config = [enableRag |-> FALSE, ragBedrockKbId |-> "", anthropicApiKey |-> "sk",
               ragMaxDecompositionQueries |-> 1, ragMinRelevanceScore |-> 0]

SpecStream == InitStream /\ [][NextStream]_vars

\* ---- two retrieveContext calls under way ------------------------------
\* The static clients and config are shared; everything else is local to a
\* call.  The calls take no callback.
\* the completion fails, or proposes two sub-queries
PairCompletions == { [kind |-> "throws", n |-> 0], [kind |-> "array", n |-> 2] }

\* the knowledge base fails, finds nothing, or answers with passages among
\* which two have one signature
PairKBOutcomes ==
  { [kind |-> "throws", items |-> <<>>] }
  \cup { [kind |-> "ok", items |-> r] :
           r \in { <<>>,
                   << RawItem(TextA, UriA, TRUE, 3) >>,
                   << RawItem(TextLongY, UriB, TRUE, 3) >>,
                   << RawItem(TextLongZ, UriA, TRUE, 2), RawItem(TextA, UriA, TRUE, 3) >> } }

\* the map and the set kept in static members, shared by the calls
RunAcc_Static(rs, r) == [results |-> rs[1].allResults, sources |-> rs[1].allSources]

\* const allResults = new Map(), const allSources = new Set(): the
\* accumulators call r works on
RunAcc(rs, r) == [results |-> rs[r].allResults, sources |-> rs[r].allSources]

RunInvoke(r) ==
  /\ runs[r].pc = "idle"
  /\ \E q \in Queries :
       runs' = [runs EXCEPT ![r] =
                  IF ~isEnabled(config)
                    THEN [RunIdle EXCEPT !.pc = "done", !.query = q, !.ret = <<ZeroContext(q)>>]
                    ELSE [RunIdle EXCEPT !.pc = "decomposing", !.query = q]]
  /\ UNCHANGED <<config, qdClient, kbClient, ragLocals, agentVars, streamVars, serverVars>>

RunDecompose(r) ==
  /\ runs[r].pc = "decomposing"
  /\ LET client == IF qdClient = "null" THEN QDInitialize(qdClient, config) ELSE qdClient
     IN  /\ qdClient' = client
         /\ \E outcome \in PairCompletions :
              /\ client = "null" => outcome.kind = "throws"
              /\ runs' = [runs EXCEPT ![r].decomposed =
                                        <<decomposeQuery(runs[r].query, client, config, outcome)>>,
                                      ![r].i = 0,
                                      ![r].pc = "retrieving"]
  /\ UNCHANGED <<config, kbClient, ragLocals, agentVars, streamVars, serverVars>>

RunIssue(r) ==
  /\ runs[r].pc = "retrieving"
  /\ runs[r].i < Len(runs[r].decomposed[1].subQueries)
  /\ kbClient' = IF kbClient = "null" THEN KBInitialize(kbClient, config) ELSE kbClient
  /\ runs' = [runs EXCEPT ![r].pc = AfterIssue(runs[r].i).pc,
                          ![r].i = AfterIssue(runs[r].i).i]
  /\ UNCHANGED <<config, qdClient, ragLocals, agentVars, streamVars, serverVars>>

RunReturn(r) ==
  /\ runs[r].pc = "awaitKB"
  /\ \E outcome \in PairKBOutcomes :
       /\ kbClient = "null" => outcome.kind = "throws"
       /\ LET run == runs[r]
              subQueries == run.decomposed[1].subQueries
              res == KBRetrieve(kbClient, config, outcome)
              acc == IF res.threw THEN RunAcc(runs, r)
                     ELSE FoldResults(RunAcc(runs, r), res.results)
              after == LoopAfter(res.threw, run.i, Len(subQueries))
          IN  runs' = [runs EXCEPT ![r].allResults = acc.results,
                                   ![r].allSources = acc.sources,
                                   ![r].kbCalls = Append(@, [subQuery |-> subQueries[run.i + 1],
                                                             threw |-> res.threw,
                                                             raw |-> outcome.items,
                                                             results |-> res.results]),
                                   ![r].i = after.i,
                                   ![r].pc = after.pc]
  /\ UNCHANGED <<config, qdClient, kbClient, ragLocals, agentVars, streamVars, serverVars>>

RunFinish(r) ==
  /\ runs[r].pc = "retrieving"
  /\ runs[r].i >= Len(runs[r].decomposed[1].subQueries)
  /\ LET run == runs[r]
         rankedResults == rankResults(MapValues(run.allResults))
     IN  runs' = [runs EXCEPT ![r].ranked = rankedResults,
                              ![r].ret = << [query |-> run.query,
                                             context |-> formatContext(rankedResults, run.query),
                                             sources |-> run.allSources,
                                             subQueries |-> run.decomposed[1].subQueries,
                                             totalResults |-> Len(rankedResults),
                                             processingTime |-> Elapsed(run.kbCalls)] >>,
                              ![r].pc = "done"]
  /\ UNCHANGED <<config, qdClient, kbClient, ragLocals, agentVars, streamVars, serverVars>>

RunRelease(r) ==
  /\ runs[r].pc = "done"
  /\ runs' = [runs EXCEPT ![r] = RunIdle]
  /\ UNCHANGED <<config, qdClient, kbClient, ragLocals, agentVars, streamVars, serverVars>>

PairInvoke == \E r \in RunIds : RunInvoke(r)
PairDecompose == \E r \in RunIds : RunDecompose(r)
PairIssue == \E r \in RunIds : RunIssue(r)
PairReturn == \E r \in RunIds : RunReturn(r)
PairFinish == \E r \in RunIds : RunFinish(r)
PairRelease == \E r \in RunIds : RunRelease(r)

NextPair ==
  \/ PairInvoke
  \/ PairDecompose
  \/ PairIssue
  \/ PairReturn
  \/ PairFinish
  \/ PairRelease

SpecPair == Init /\ [][NextPair]_vars

\* ---- properties --------------------------------------------------------
Range(f) == { f[k] : k \in DOMAIN f }

\* the results of the retrieve() calls of this run that resolved
Retrieved == UNION { Range(c.results) : c \in { d \in Range(kbCalls) : ~d.threw } }

Returned == pc = "done" /\ ret # <<>> /\ isEnabled(config)

\* C1: the ranked results (and the accumulating map) never hold two entries
\* with the same content signature: every signature that was retrieved is
\* retained exactly once, a text that meets no other text of its signature
\* is retained exactly once, and totalResults counts each signature once.
C1_UniqueSignature ==
  /\ \A a, b \in 1..Len(allResults) :
       a # b => hashContent(allResults[a].value.content) # hashContent(allResults[b].value.content)
  /\ \A a, b \in 1..Len(ranked) :
       a # b => hashContent(ranked[a].content) # hashContent(ranked[b].content)
  /\ Returned =>
       /\ \A r \in Retrieved :
            Cardinality({ k \in 1..Len(ranked) :
                            hashContent(ranked[k].content) = hashContent(r.content) }) = 1
       /\ \A r \in Retrieved :
            (\A o \in Retrieved : hashContent(o.content) = hashContent(r.content)
                                    => o.content = r.content)
            => Cardinality({ k \in 1..Len(ranked) : ranked[k].content = r.content }) = 1
       /\ ret[1].totalResults = Cardinality({ hashContent(r.content) : r \in Retrieved })

\* two sub-queries both returned one text, and the run has returned
C1_Witness ==
  /\ Returned
  /\ \E a, b \in 1..Len(kbCalls) :
       /\ a < b
       /\ \E x \in Range(kbCalls[a].results), y \in Range(kbCalls[b].results) :
            x.content = y.content
  /\ ret[1].totalResults >= 2

\* the raw entries the knowledge base returned in this run
RawSeen == UNION { Range(c.raw) : c \in Range(kbCalls) }

\* C2: every ranked result has score >= ragMinRelevanceScore (a missing
\* score counting as 0); the ranked results, the sources and the blocks of
\* the context come from raw entries at or above the threshold only.
C2_ThresholdExclusion ==
  /\ \A k \in 1..Len(ranked) : ranked[k].score >= config.ragMinRelevanceScore
  /\ \A k \in 1..Len(allResults) : allResults[k].value.score >= config.ragMinRelevanceScore
  /\ Returned =>
       /\ \A k \in 1..Len(ranked) :
            \E raw \in RawSeen :
              /\ (IF raw.hasScore THEN raw.score ELSE 0) >= config.ragMinRelevanceScore
              /\ raw.text = ranked[k].content
              /\ ranked[k].score = (IF raw.hasScore THEN raw.score ELSE 0)
       /\ \A src \in Range(ret[1].sources) :
            \E k \in 1..Len(ranked) : ranked[k].source = src
       /\ ret[1].context = formatContext(ranked, query)

\* the knowledge base returned an entry below the threshold and one without
\* a score, next to entries that were kept
C2_Witness ==
  /\ Returned
  /\ \E raw \in RawSeen : raw.hasScore /\ raw.score < config.ragMinRelevanceScore
  /\ \E raw \in RawSeen : ~raw.hasScore /\ config.ragMinRelevanceScore > 0
  /\ Len(ranked) >= 1

\* C3: the returned sources are exactly the distinct sources of the ranked
\* results, each listed once.
C3_SourcesExact ==
  Returned =>
    /\ Range(ret[1].sources) = { ranked[k].source : k \in 1..Len(ranked) }
    /\ \A a, b \in 1..Len(ret[1].sources) : a # b => ret[1].sources[a] # ret[1].sources[b]

\* a duplicate was dropped whose source no retained result carries, and a
\* sub-query failed
C3_Witness ==
  /\ Returned
  /\ \E r \in Retrieved : r.source \notin Range(ret[1].sources)
  /\ \E c \in Range(kbCalls) : c.threw
  /\ Len(ret[1].sources) >= 1

\* C4: the ranked results are in descending order of score.
C4_RankedDescending ==
  \A k \in 1..(Len(ranked) - 1) : ranked[k].score >= ranked[k + 1].score

\* three results were retained, and not in descending order of insertion
C4_Witness ==
  /\ Returned
  /\ Len(ranked) >= 3
  /\ \E k \in 1..(Len(allResults) - 1) :
       allResults[k].value.score < allResults[k + 1].value.score

\* C5: when every retrieve() call of the run throws, retrieveContext still
\* returns context "", totalResults 0 and no sources; a rejected call is
\* always followed by the next loop round, and the run ends in an
\* exception only when the caller's callback threw.
C5_GracefulDegradation ==
  /\ [](/\ (Returned /\ \A c \in Range(kbCalls) : c.threw) =>
              /\ ret[1].context = <<>>
              /\ ret[1].totalResults = 0
              /\ ret[1].sources = <<>>
        /\ pc = "thrown" => onEvent = "callback")
  /\ [][pc = "awaitKB" => pc' = "retrieving"]_vars

\* two sub-queries, both calls threw, and the run returned
C5_Witness ==
  /\ Returned
  /\ Len(kbCalls) >= 2
  /\ \A c \in Range(kbCalls) : c.threw
  /\ ret[1].context = <<>>

\* C6: a failed retrieval never aborts the run: every sub-query is
\* retrieved, in order; the ranked results are results of the calls that
\* resolved, and every such result is in the ranked results (itself or the
\* earlier result of its signature) and so in the context.
C6_FailureContinues ==
  /\ [](Returned =>
          /\ Len(kbCalls) = Len(SubQueries)
          /\ \A k \in 1..Len(kbCalls) : kbCalls[k].subQuery = SubQueries[k]
          /\ Range(ranked) \subseteq Retrieved
          /\ \A r \in Retrieved :
               \E k \in 1..Len(ranked) : hashContent(ranked[k].content) = hashContent(r.content)
          /\ ret[1].subQueries = SubQueries
          /\ ret[1].totalResults = Len(ranked)
          /\ ret[1].context = formatContext(ranked, query))
  /\ [][pc = "awaitKB" => pc' = "retrieving" /\ i' = i + 1 /\ Len(kbCalls') = i']_vars

\* the first call threw, the second resolved with results that were kept
C6_Witness ==
  /\ Returned
  /\ Len(kbCalls) >= 2
  /\ kbCalls[1].threw
  /\ ~kbCalls[2].threw /\ kbCalls[2].results # <<>>
  /\ ret[1].context # <<>>

\* the completion call of this run failed, or answered with something that
\* is not the decomposition schema, or was never made for lack of a key
DecompositionFailed ==
  \/ completion = <<>>
  \/ completion[1].kind \in {"throws", "nonText", "badJson", "noField", "notSliceable", "string"}

\* C7: when the completion call throws, returns malformed output, or no
\* credential is configured, decomposeQuery returns exactly [originalQuery].
C7_DecompositionFallback ==
  (decomposed # <<>> /\ DecompositionFailed) =>
    /\ decomposed[1].isArray
    /\ decomposed[1].subQueries = <<query>>

\* C8: decomposeQuery always returns between 1 and maxSubQueries
\* sub-queries; an empty answer falls back to the original query.
C8_AtLeastOneSubQuery ==
  decomposed # <<>> =>
    /\ Len(decomposed[1].subQueries) >= 1
    /\ Len(decomposed[1].subQueries) <= config.ragMaxDecompositionQueries
    /\ (completion # <<>> /\ completion[1].kind = "array" /\ completion[1].n = 0)
         => decomposed[1].subQueries = <<query>>

\* C9: with config.enableRag = false, augmentPrompt(msg) returns exactly
\* msg, at once: no event, no decomposition, no retrieval, no exception.
C9_DisabledPassthrough ==
  (entry = "augmentPrompt" /\ ~config.enableRag) =>
    /\ pc = "done"
    /\ augmented = <<query>>
    /\ events = <<>>
    /\ decomposed = <<>>
    /\ kbCalls = <<>>

\* augmentPrompt was called with a callback while retrieval is switched off
\* although a knowledge base is configured
C9_Witness ==
  /\ entry = "augmentPrompt"
  /\ ~config.enableRag
  /\ config.ragBedrockKbId # ""
  /\ onEvent = "callback"
  /\ augmented # <<>>

\* C10: augmentPrompt returns userMessage unchanged when the context is
\* empty, and otherwise context + "\n\n## User Question\n\n" + userMessage;
\* userMessage is always the end of what it returns.
C10_AugmentedPrompt ==
  (pc = "done" /\ entry = "augmentPrompt") =>
    /\ Len(augmented) = 1
    /\ (ret = <<>> \/ Len(ranked) = 0) => augmented[1] = query
    /\ (ret # <<>> /\ ret[1].context = <<>>) => augmented[1] = query
    /\ (ret # <<>> /\ ret[1].context # <<>>) =>
         /\ Len(augmented[1]) = Len(ret[1].context) + 1 + Len(query)
         /\ SubSeq(augmented[1], 1, Len(ret[1].context)) = ret[1].context
         /\ augmented[1][Len(ret[1].context) + 1] = "\n\n## User Question\n\n"
    /\ SubSeq(augmented[1], Len(augmented[1]) - Len(query) + 1, Len(augmented[1])) = query

\* augmentPrompt returned a prompt that carries a context of two documents
C10_Witness ==
  /\ pc = "done"
  /\ entry = "augmentPrompt"
  /\ ret # <<>>
  /\ Len(ranked) >= 2
  /\ augmented # <<query>>

\* C11: with retrieval disabled, retrieveContext returns at once the
\* zero-value context (context "", no sources, no sub-queries, totalResults
\* 0, processing time 0) for its query; no event is emitted and neither the
\* decomposer nor the knowledge base is called.
C11_DisabledZeroContext ==
  (entry = "retrieveContext" /\ ~config.enableRag) =>
    /\ pc = "done"
    /\ ret = << [query |-> query, context |-> <<>>, sources |-> <<>>, subQueries |-> <<>>,
                 totalResults |-> 0, processingTime |-> 0] >>
    /\ events = <<>>
    /\ completion = <<>> /\ decomposed = <<>> /\ qdClient = "null"
    /\ inFlight = {} /\ kbCalls = <<>> /\ kbClient = "null"

\* retrieveContext was called with a callback while retrieval is switched
\* off although a knowledge base and a credential are configured
C11_Witness ==
  /\ entry = "retrieveContext"
  /\ ~config.enableRag
  /\ config.ragBedrockKbId # "" /\ config.anthropicApiKey # ""
  /\ onEvent = "callback"
  /\ ret # <<>>

\* C12: when retrieval is enabled but no knowledge base id is configured,
\* an invocation of the orchestrator ends in an explicit error and returns
\* nothing.
C12_MissingKbRefused ==
  (entry # "none" /\ config.enableRag /\ config.ragBedrockKbId = "") =>
    /\ pc = "thrown"
    /\ ret = <<>>
    /\ augmented = <<>>

\* what an event says about the stage it belongs to
EventShape(e) == IF e.type = "retrieval" THEN <<e.type, e.index>> ELSE <<e.type, 0>>

\* the events of a run over k sub-queries
ExpectedShapes(k) ==
  << <<"decomposition", 0>>, <<"decomposition", 0>> >>
    \o [j \in 1..k |-> <<"retrieval", j>>]
    \o << <<"aggregation", 0>>, <<"complete", 0>> >>

\* C13: the events of an enabled run are, at every moment, a beginning of
\* decomposition, decomposition, retrieval 1..k, aggregation, complete: no
\* event of an earlier stage follows one of a later stage, there is at most
\* one complete event and nothing follows it, and a run that returns has
\* emitted all of them, the complete event last.
C13_StageOrder ==
  /\ LET expected == ExpectedShapes(IF decomposed = <<>> THEN 0 ELSE Len(SubQueries))
     IN  /\ Len(events) <= Len(expected)
         /\ \A j \in 1..Len(events) : EventShape(events[j]) = expected[j]
         /\ decomposed = <<>> => Len(events) <= 1
  /\ (Returned /\ onEvent = "callback") =>
       /\ Len(events) = Len(SubQueries) + 4
       /\ events[Len(events)].type = "complete"
       /\ Cardinality({ j \in 1..Len(events) : events[j].type = "complete" }) = 1

\* a run over two sub-queries returned to a caller that listens, one of its
\* retrieve() calls having failed
C13_Witness ==
  /\ Returned
  /\ onEvent = "callback"
  /\ Len(SubQueries) = 2
  /\ Len(events) = 6
  /\ \E c \in Range(kbCalls) : c.threw

\* C15: a failing progress callback does not abort the run: no run that was
\* given a callback ends in an exception.
C15_CallbackFireAndForget ==
  onEvent = "callback" => pc # "thrown"

\* the results of the calls that resolved, in the order they were folded in
RECURSIVE Flat(_)
Flat(calls) ==
  IF calls = <<>> THEN <<>> ELSE Head(calls).results \o Flat(Tail(calls))

\* the first result of a sequence with the given signature
FirstWith(results, key) ==
  results[CHOOSE k \in 1..Len(results) :
            /\ hashContent(results[k].content) = key
            /\ \A j \in 1..(k - 1) : hashContent(results[j].content) # key]

\* C17: among the results of one signature the first seen (earliest
\* sub-query, earliest position in its response) is the one retained, with
\* its own score and source; a later duplicate never replaces it.
C17_FirstSeenRetained ==
  /\ \A k \in 1..Len(allResults) :
       allResults[k].value = FirstWith(Flat(kbCalls), allResults[k].key)
  /\ \A k \in 1..Len(ranked) :
       ranked[k] = FirstWith(Flat(kbCalls), hashContent(ranked[k].content))

\* a later result has the signature of an earlier one, another text, another
\* source and a higher score, and the run has returned
C17_Witness ==
  /\ Returned
  /\ \E a, b \in 1..Len(Flat(kbCalls)) :
       /\ a < b
       /\ hashContent(Flat(kbCalls)[a].content) = hashContent(Flat(kbCalls)[b].content)
       /\ Flat(kbCalls)[a].content # Flat(kbCalls)[b].content
       /\ Flat(kbCalls)[a].source # Flat(kbCalls)[b].source
       /\ Flat(kbCalls)[a].score < Flat(kbCalls)[b].score
       /\ Flat(kbCalls)[a] \in Range(ranked)

\* C18: the retrieve() calls of a run are made one after the other in
\* sub-query order: at most one call is in flight, and the call for
\* sub-query k is in flight only when the calls for 1..k-1 have settled.
C18_SequentialRetrieval ==
  /\ Cardinality(inFlight) <= 1
  /\ \A k \in inFlight :
       /\ pc = "awaitKB"
       /\ k = i + 1
       /\ Len(kbCalls) = k - 1
       /\ \A j \in 1..Len(kbCalls) : kbCalls[j].subQuery = SubQueries[j]
  /\ pc = "awaitKB" => inFlight = {i + 1}

\* the call for the second sub-query is in flight, the first one having
\* settled with results
C18_Witness ==
  /\ pc = "awaitKB"
  /\ inFlight = {2}
  /\ Len(kbCalls) = 1
  /\ kbCalls[1].results # <<>>

\* C20: ranking is stable: ranked results of equal score stand in the order
\* in which they were inserted into the accumulating map.
C20_StableRanking ==
  \A a, b \in 1..Len(ranked) :
    (a < b /\ ranked[a].score = ranked[b].score) =>
      \A ka, kb \in 1..Len(allResults) :
        (allResults[ka].value = ranked[a] /\ allResults[kb].value = ranked[b]) => ka < kb

\* two retained results tie, below a third that was inserted after them
C20_Witness ==
  /\ Returned
  /\ \E a, b \in 1..Len(ranked) :
       a < b /\ ranked[a].score = ranked[b].score /\ ranked[a].content # ranked[b].content
  /\ \E k \in 1..(Len(allResults) - 1) :
       allResults[k].value.score < allResults[k + 1].value.score

\* C14: in pre_retrieval mode no failure inside RAG initialization,
\* decomposition or retrieval reaches the caller of processMessage:
\* processMessage rejects only when onStream itself threw, and otherwise
\* calls query() with a prompt that ends with the user message and is the
\* user message itself when initialization failed or nothing was retrieved.
C14_QueryStillIssued ==
  ragMode = "pre_retrieval" =>
    /\ agentPc = "thrown" => thrownBy = "onStream"
    /\ agentPc = "querying" =>
         /\ Len(prompt) = 1
         /\ SubSeq(prompt[1], Len(prompt[1]) - Len(userMsg) + 1, Len(prompt[1])) = userMsg
         /\ (ragFailure # "none" \/ ranked = <<>>) => prompt = <<userMsg>>
         /\ (ragFailure = "none" /\ config.enableRag) => prompt = augmented

\* RAGService.initialize() failed and query() was called with the user
\* message
C14_Witness ==
  /\ ragMode = "pre_retrieval"
  /\ agentPc = "querying"
  /\ ragFailure = "initialize"
  /\ prompt = <<userMsg>>

\* the deltas of the content_delta events, joined in the order of emission
RECURSIVE DeltaConcat(_)
DeltaConcat(evs) ==
  IF evs = <<>> THEN <<>>
  ELSE (IF Head(evs).type = "content_delta" THEN Head(evs).delta ELSE <<>>)
         \o DeltaConcat(Tail(evs))

\* the texts of the text blocks of a list of blocks, joined
RECURSIVE BlockTexts(_)
BlockTexts(blocks) ==
  IF blocks = <<>> THEN <<>>
  ELSE (IF Head(blocks).type = "text" THEN Head(blocks).text ELSE <<>>)
         \o BlockTexts(Tail(blocks))

\* the texts of the text blocks of the assistant messages, joined
RECURSIVE MessageTexts(_)
MessageTexts(msgs) ==
  IF msgs = <<>> THEN <<>>
  ELSE (IF Head(msgs).type = "assistant" /\ Head(msgs).isArray
          THEN BlockTexts(Head(msgs).content) ELSE <<>>)
         \o MessageTexts(Tail(msgs))

\* the session ids of the init messages, in order
InitIds(msgs) ==
  SelectSeq([k \in 1..Len(msgs) |->
               IF msgs[k].type = "system" /\ msgs[k].subtype = "init"
                 THEN msgs[k].session_id ELSE ""],
            LAMBDA x : x # "")

\* C19: processMessage returns as response the deltas of the content_delta
\* events it streamed, joined in the order of emission, which is the text
\* of the text blocks it received and nothing of any other block; the
\* sessionId it returns is the one of the init message (of the last one,
\* should the stream carry several; undefined when it carries none).
C19_ResponseIsDeltas ==
  /\ fullResponse = DeltaConcat(out)
  /\ streamPc = "returned" =>
       /\ returned[1].response = DeltaConcat(out)
       /\ returned[1].response = MessageTexts(received)
       /\ LET ids == InitIds(received)
          IN  returned[1].sessionId = IF ids = <<>> THEN "undefined" ELSE ids[Len(ids)]

\* processMessage returned after an init message, a message with text, a
\* tool call and more text, and a message with further text
C19_Witness ==
  /\ streamPc = "returned"
  /\ returned[1].sessionId = "s1"
  /\ returned[1].response = <<"b", "c", "d", "a">>
  /\ \E k \in 1..Len(out) : out[k].type = "tool_use"

\* the results returned to call r so far
OwnResults(r) == Range(Flat(runs[r].kbCalls))

\* C16: two calls under way do not interfere: at every moment the map and
\* the sources of a call hold results returned to that call only; a call
\* that returns ranks exactly one result for every signature among its own
\* results, whatever the other call has seen, and its sources and
\* totalResults are those of its own ranked results.
C16_NoInterference ==
  \A r \in RunIds :
    LET run == runs[r]
    IN  /\ \A k \in 1..Len(run.allResults) : run.allResults[k].value \in OwnResults(r)
        /\ \A x \in OwnResults(r) : MapHas(run.allResults, hashContent(x.content))
        /\ Range(run.allSources) \subseteq { x.source : x \in OwnResults(r) }
        /\ (run.pc = "done" /\ isEnabled(config)) =>
             /\ Range(run.ranked) \subseteq OwnResults(r)
             /\ \A x \in OwnResults(r) :
                  Cardinality({ k \in 1..Len(run.ranked) :
                                  hashContent(run.ranked[k].content) = hashContent(x.content) }) = 1
             /\ Range(run.ret[1].sources) = { run.ranked[k].source : k \in 1..Len(run.ranked) }
             /\ run.ret[1].totalResults = Cardinality({ hashContent(x.content) : x \in OwnResults(r) })

\* the second call returned a passage while the first call, still under
\* way, holds another passage of the same signature
C16_Witness ==
  /\ runs[1].pc = "awaitKB"
  /\ runs[2].pc = "done"
  /\ \E a \in 1..Len(runs[1].allResults), b \in 1..Len(runs[2].ranked) :
       /\ runs[1].allResults[a].key = hashContent(runs[2].ranked[b].content)
       /\ runs[1].allResults[a].value.content # runs[2].ranked[b].content

\* C21: when the completion lists more than ragMaxDecompositionQueries
\* sub-queries, decomposeQuery returns the first ragMaxDecompositionQueries
\* of them in their order; when it lists at least one and no more than
\* that, it returns them all unchanged; retrieveContext returns the list
\* decomposeQuery gave as subQueries.
C21_Truncation ==
  /\ (decomposed # <<>> /\ completion # <<>> /\ completion[1].kind = "array"
      /\ completion[1].n >= 1) =>
       LET n == completion[1].n
           max == config.ragMaxDecompositionQueries
       IN  decomposed[1].subQueries =
             IF n > max THEN [k \in 1..max |-> SubQueryPool[k]]
             ELSE [k \in 1..n |-> SubQueryPool[k]]
  /\ Returned => ret[1].subQueries = decomposed[1].subQueries

\* the completion listed three sub-queries where two are allowed, and the
\* run returned
C21_Witness ==
  /\ Returned
  /\ completion # <<>> /\ completion[1].kind = "array"
  /\ completion[1].n > config.ragMaxDecompositionQueries
  /\ config.ragMaxDecompositionQueries = 2
  /\ Len(ret[1].subQueries) = 2

\* the retrieval events emitted so far
RetrievalEvents == SelectSeq(events, LAMBDA e : e.type = "retrieval")

\* C22: the retrieval events of a run are one per sub-query, in order, each
\* naming its sub-query (the first 50 characters) and its index; the event
\* of a sub-query is there before its retrieve() call is made, whether the
\* call then resolves or rejects, so a run that returns has emitted as many
\* retrieval events as it has sub-queries.
C22_RetrievalEvents ==
  (onEvent = "callback" /\ decomposed # <<>>) =>
    /\ \A k \in 1..Len(RetrievalEvents) :
         /\ RetrievalEvents[k].index = k
         /\ RetrievalEvents[k].total = Len(SubQueries)
         /\ RetrievalEvents[k].subQuery = substring(SubQueries[k], 0, 50)
    /\ \A k \in inFlight : k <= Len(RetrievalEvents)
    /\ Len(kbCalls) <= Len(RetrievalEvents)
    /\ Len(RetrievalEvents) <= Len(kbCalls) + Cardinality(inFlight) + 1
    /\ pc \in {"awaitKB", "done"} => Len(RetrievalEvents) = Len(kbCalls) + Cardinality(inFlight)
    /\ Returned => /\ Len(RetrievalEvents) = Len(SubQueries)
                   /\ Len(kbCalls) = Len(SubQueries)

\* a listening caller got its result after the first call resolved and the
\* second rejected
C22_Witness ==
  /\ Returned
  /\ onEvent = "callback"
  /\ Len(kbCalls) = 2
  /\ ~kbCalls[1].threw /\ kbCalls[2].threw
  /\ Len(RetrievalEvents) = 2

\* the aggregation events emitted so far
AggregationEvents == SelectSeq(events, LAMBDA e : e.type = "aggregation")

\* C23 as stated: the aggregation event reports the unique-result count and
\* the source count of the accumulated results.
C23_AggregationSourceCount ==
  \A k \in 1..Len(AggregationEvents) :
    /\ AggregationEvents[k].unique = Len(allResults)
    /\ AggregationEvents[k].searches = Len(allSources)

\* C23: after the last sub-query the run emits one aggregation event, which
\* reports the unique-result count and the number of searches (sub-queries)
\* made; the source count is reported by the complete event only.
C23_AggregationSearchCount ==
  /\ Len(AggregationEvents) <= 1
  /\ \A k \in 1..Len(AggregationEvents) :
       /\ Len(kbCalls) = Len(SubQueries)
       /\ AggregationEvents[k].unique = Len(allResults)
       /\ AggregationEvents[k].searches = Len(SubQueries)
  /\ (Returned /\ onEvent = "callback") =>
       /\ Len(AggregationEvents) = 1
       /\ events[Len(events)].type = "complete"
       /\ Len(events[Len(events)].sources) = Len(allSources)

\* the aggregation event of a run that made two searches and kept two
\* results from one source
C23_Witness ==
  /\ Returned
  /\ Len(AggregationEvents) = 1
  /\ Len(SubQueries) = 2
  /\ Len(allResults) = 2
  /\ Len(allSources) = 1

\* C24: nothing is retried: a run makes one decomposition call and one
\* retrieve() call per sub-query, in order, also after a call failed, which
\* is at most ragMaxDecompositionQueries retrieve() calls.
C24_NoRetry ==
  /\ Len(completion) <= 1
  /\ Len(decomposed) <= 1
  /\ decomposed # <<>> =>
       /\ Len(kbCalls) + Cardinality(inFlight) <= Len(SubQueries)
       /\ Len(SubQueries) <= config.ragMaxDecompositionQueries
       /\ \A k \in 1..Len(kbCalls) : kbCalls[k].subQuery = SubQueries[k]
       /\ \A k \in inFlight : k = Len(kbCalls) + 1
  /\ Returned => Len(kbCalls) = Len(SubQueries)

\* the completion listed more sub-queries than allowed, both retrieve()
\* calls failed, and the run returned after two calls
C24_Witness ==
  /\ Returned
  /\ completion # <<>> /\ completion[1].kind = "array" /\ completion[1].n = 3
  /\ config.ragMaxDecompositionQueries = 2
  /\ Len(kbCalls) = 2
  /\ kbCalls[1].threw /\ kbCalls[2].threw

\* where the blocks of a context start
BlockStarts(context) ==
  SelectSeq([k \in 1..Len(context) |-> k], LAMBDA k : context[k] = "### Document ")

\* the first position after p where the context holds the token t
NextToken(context, p, t) ==
  CHOOSE q \in (p + 1)..Len(context) :
    /\ context[q] = t
    /\ \A j \in (p + 1)..(q - 1) : context[j] # t

\* C26: the context is empty exactly when there are no ranked results
\* (totalResults = 0); otherwise it holds one block per ranked result,
\* numbered 1..N in rank order, each with the content of its result; and
\* augmentPrompt returns something else than the message exactly when
\* totalResults > 0.
C26_ContextIffResults ==
  /\ Returned =>
       /\ (ret[1].context = <<>>) <=> (Len(ranked) = 0)
       /\ (ret[1].context = <<>>) <=> (ret[1].totalResults = 0)
       /\ LET starts == BlockStarts(ret[1].context)
          IN  /\ Len(starts) = Len(ranked)
              /\ \A k \in 1..Len(starts) :
                   LET p == starts[k]
                       q == NextToken(ret[1].context, p, "%\n\n")
                   IN  /\ SubSeq(ret[1].context, p + 1, p + Len(Digits(k))) = Digits(k)
                       /\ ret[1].context[p + Len(Digits(k)) + 1] = " ["
                       /\ SubSeq(ret[1].context, q + 1, q + Len(ranked[k].content))
                            = ranked[k].content
                       /\ ret[1].context[q + Len(ranked[k].content) + 1] = "\n\n---\n\n"
  /\ (Returned /\ entry = "augmentPrompt") =>
       (augmented # <<query>>) <=> (ret[1].totalResults > 0)

\* augmentPrompt returned a prompt with a context of three blocks
C26_Witness ==
  /\ Returned
  /\ entry = "augmentPrompt"
  /\ ret[1].totalResults = 3
  /\ Len(BlockStarts(ret[1].context)) = 3
  /\ augmented # <<query>>

\* the contents agree on the first 100 characters and have the same length
SameSignature(x, y) ==
  /\ substring(x, 0, 100) = substring(y, 0, 100)
  /\ Len(x) = Len(y)

\* C27: two results have the same key exactly when their contents agree on
\* the first 100 characters and have the same length; of results that do,
\* one is retained, so two different contents with a common 100-character
\* beginning and equal length are merged, and one content is never
\* retained twice.
C27_SignatureIsPrefixAndLength ==
  /\ \A x, y \in { raw.text : raw \in RawSeen } :
       (hashContent(x) = hashContent(y)) <=> SameSignature(x, y)
  /\ \A a, b \in 1..Len(allResults) :
       a # b => ~SameSignature(allResults[a].value.content, allResults[b].value.content)
  /\ \A r \in Retrieved :
       Cardinality({ k \in 1..Len(allResults) :
                       SameSignature(allResults[k].value.content, r.content) }) = 1
  /\ \A a, b \in 1..Len(ranked) : a # b => ranked[a].content # ranked[b].content

\* two different long contents of one signature were retrieved, and a
\* content was retrieved twice; the run returned two results
C27_Witness ==
  /\ Returned
  /\ \E x, y \in Retrieved : x.content # y.content /\ SameSignature(x.content, y.content)
  /\ \E a, b \in 1..Len(Flat(kbCalls)) :
       a # b /\ Flat(kbCalls)[a].content = Flat(kbCalls)[b].content
  /\ Len(ranked) = 1

\* ---- the loop of retrieveContext against a merge of all responses -------
\* Runs of the loop alone, over more sub-queries and more passages than the
\* runs above: the decomposition has resolved with one sub-query more than
\* MaxSubQueries, and every response holds MaxResponse passages.
TextC == <<"c">>
TextD == <<"d">>

\* six passages of five signatures
FoldPool ==
  << RawItem(TextA, UriA, TRUE, 3),
     RawItem(TextB, <<>>, FALSE, 0),
     RawItem(TextC, UriB, TRUE, 2),
     RawItem(TextD, UriA, TRUE, 3),
     RawItem(TextLongY, UriB, TRUE, 3),
     RawItem(TextLongZ, UriA, TRUE, 2) >>

\* MaxResponse passages of the pool from the k-th on, or the k-th repeated
Window(k, stride) ==
  [j \in 1..MaxResponse |-> FoldPool[((k - 1 + (j - 1) * stride) % Len(FoldPool)) + 1]]

FoldOutcomes ==
  { [kind |-> "throws", items |-> <<>>] }
  \cup { [kind |-> "ok", items |-> Window(k, stride)] : k \in 1..Len(FoldPool), stride \in {0, 1} }

FoldConfigs ==
  { cfg \in [ enableRag : {TRUE},
              ragBedrockKbId : {"KB"},
              anthropicApiKey : {"sk"},
              ragMaxDecompositionQueries : {MaxSubQueries + 1},
              ragMinRelevanceScore : {0, 3} ] : isEnabled(cfg) }

\* retrieveContext right after `const decomposed = await decomposeQuery(..)`
\* of a call without callback
InitFold ==
  /\ config \in FoldConfigs
  /\ qdClient = QDInitialize("null", config)
  /\ kbClient = "null"
  /\ pc = "retrieving"
  /\ entry = "retrieveContext"
  /\ query \in Queries
  /\ onEvent = "none"
  /\ events = <<>>
  /\ completion = << [kind |-> "array", n |-> MaxSubQueries + 1] >>
  /\ decomposed = << decomposeQuery(query, qdClient, config, completion[1]) >>
  /\ i = 0
  /\ inFlight = {}
  /\ kbCalls = <<>>
  /\ allResults = <<>>
  /\ allSources = <<>>
  /\ ranked = <<>>
  /\ ret = <<>>
  /\ augmented = <<>>
  /\ ragMode = "mcp"
  /\ initialized = FALSE
  /\ AgentIdle
  /\ OthersIdle

\* retrieve() settles with the given outcome, as in RetrieveReturn: the
\* results are folded in or the catch block logs, and the loop moves on
Settled(outcome) ==
  /\ kbClient = "null" => outcome.kind = "throws"
  /\ LET r == KBRetrieve(kbClient, config, outcome)
         acc == IF r.threw THEN [results |-> allResults, sources |-> allSources]
                ELSE FoldResults([results |-> allResults, sources |-> allSources],
                                 r.results)
     IN  /\ allResults' = acc.results
         /\ allSources' = acc.sources
         /\ kbCalls' = Append(kbCalls, [subQuery |-> SubQueries[i + 1],
                                        threw |-> r.threw,
                                        raw |-> outcome.items,
                                        results |-> r.results])
         /\ i' = LoopAfter(r.threw, i, Len(SubQueries)).i
         /\ pc' = LoopAfter(r.threw, i, Len(SubQueries)).pc
  /\ inFlight' = inFlight \ {i + 1}
  /\ UNCHANGED <<config, qdClient, kbClient, entry, query, onEvent, events, completion,
                 decomposed, ranked, ret, augmented, others>>

\* retrieve() settles with a response of FoldOutcomes
FoldReturn ==
  /\ pc = "awaitKB"
  /\ \E outcome \in FoldOutcomes : Settled(outcome)

NextFold ==
  \/ RetrieveIssue
  \/ FoldReturn
  \/ Finish

SpecFold == InitFold /\ [][NextFold]_vars

\* the post-hoc merge: of the first k results of a list, those that no
\* earlier result of the list shares its signature with, in list order
RECURSIVE MergeUpTo(_, _)
MergeUpTo(s, k) ==
  IF k = 0 THEN <<>>
  ELSE IF \E j \in 1..(k - 1) : SameSignature(s[j].content, s[k].content)
    THEN MergeUpTo(s, k - 1)
  ELSE Append(MergeUpTo(s, k - 1), s[k])

Merge(s) == MergeUpTo(s, Len(s))

\* C25: folding each response into the map as it arrives gives what
\* merging afterwards gives: the responses of the resolved calls laid end to
\* end in sub-query order, the first result of each signature kept.  This
\* holds after every response, across responses and within one, and the
\* run reports the size of that merge as totalResults.
C25_FoldIsMerge ==
  /\ MapValues(allResults) = Merge(Flat(kbCalls))
  /\ ret # <<>> =>
       /\ ret[1].totalResults = Len(Merge(Flat(kbCalls)))
       /\ { ranked[k] : k \in 1..Len(ranked) } = Range(Merge(Flat(kbCalls)))

\* three sub-queries with two results each, the first two sharing one
\* content: five results are reported
C25_Witness ==
  /\ pc = "done"
  /\ Len(kbCalls) = 3
  /\ \A k \in 1..3 : ~kbCalls[k].threw /\ Len(kbCalls[k].results) = 2
  /\ \E a, b \in 1..2 : kbCalls[1].results[a].content = kbCalls[2].results[b].content
  /\ Len(Flat(kbCalls)) = 6
  /\ ret[1].totalResults = 5

\* ---- progress of a run --------------------------------------------------
\* The awaited calls settle (messages.create and client.send resolve or
\* reject) and the event loop resumes the async function after each await:
\* a step of the run that can be taken is taken.  Whether a caller ever
\* calls, or takes the result, is left open.  What a response holds does
\* not matter to progress: a call fails or answers with one passage.
LiveOutcomes ==
  { [kind |-> "throws", items |-> <<>>],
    [kind |-> "ok", items |-> << RawItem(TextA, UriA, TRUE, 3) >>] }

LiveReturn ==
  /\ pc = "awaitKB"
  /\ \E outcome \in LiveOutcomes : Settled(outcome)

NextLive ==
  \/ CallRetrieveContext
  \/ CallAugmentPrompt
  \/ Decompose
  \/ RetrieveIssue
  \/ LiveReturn
  \/ Finish
  \/ Release

SpecLive ==
  /\ Init
  /\ [][NextLive]_vars
  /\ WF_vars(Decompose)
  /\ WF_vars(RetrieveIssue)
  /\ WF_vars(LiveReturn)
  /\ WF_vars(Finish)

Running == pc \in {"decomposing", "retrieving", "awaitKB"}

MaxWritten == 3
MaxFiles == 2

\* the session ids the SDK reports in its init message
SessionIds == {"s1", "s2"}

TerminalEvents == {"message_complete", "error"}

\* no RAG run is under way and the static clients are not set up
RagIdle ==
  /\ qdClient = "null"
  /\ kbClient = "null"
  /\ pc = "idle"
  /\ entry = "none"
  /\ query = <<>>
  /\ onEvent = "none"
  /\ events = <<>>
  /\ completion = <<>>
  /\ decomposed = <<>>
  /\ i = 0
  /\ inFlight = {}
  /\ kbCalls = <<>>
  /\ allResults = <<>>
  /\ allSources = <<>>
  /\ ranked = <<>>
  /\ ret = <<>>
  /\ augmented = <<>>
  /\ ragMode = "mcp"
  /\ initialized = FALSE

\* the user has no record in sessions.json, or one left by an earlier request
InitChat ==
  /\ config = [enableRag |-> FALSE, ragBedrockKbId |-> "", anthropicApiKey |-> "sk",
               ragMaxDecompositionQueries |-> 1, ragMinRelevanceScore |-> 0]
  /\ RagIdle
  /\ AgentIdle
  /\ LoopIdle
  /\ StorageIdle
  /\ chatPc = "idle"
  /\ storedSessionId \in {"undefined"} \cup SessionIds
  /\ existingSessionId = "undefined"
  /\ chatNewSessionId = "undefined"
  /\ chatResult = <<>>
  /\ written = <<>>
  /\ ended = FALSE
  /\ lateWrites = <<>>
  /\ watching = FALSE
  /\ statPending = 0
  /\ fileEvents = 0

chatFrame == <<ragVars, agentVars, streamVars, runs, storageVars>>

\* res.write(`data: ${JSON.stringify(event)}\n\n`): the log of the
\* response after the call, [written, lateWrites]
ResWrite(w, late, isEnded, type) ==
  IF isEnded THEN [written |-> w, lateWrites |-> Append(late, type)]
  ELSE [written |-> Append(w, type), lateWrites |-> late]

\* the catch block of the handler: the error event, then res.end()
ChatCatch(w) ==
  /\ written' = ResWrite(w, lateWrites, ended, "error").written
  /\ lateWrites' = ResWrite(w, lateWrites, ended, "error").lateWrites
  /\ ended' = TRUE
  /\ chatPc' = "ended"

\* the request arrives: 400 without userId or message, else the SSE
\* headers go out and getUserSession is awaited
ChatRequest ==
  /\ chatPc = "idle"
  /\ \E userId \in {"", "user-1"}, message \in {"", "hi"} :
       chatPc' = IF userId = "" \/ message = "" THEN "rejected" ELSE "loading"
  /\ UNCHANGED <<storedSessionId, existingSessionId, chatNewSessionId, chatResult, written,
                 ended, lateWrites, watching, statPending, fileEvents>>
  /\ UNCHANGED chatFrame

\* getUserSession settles: on success the status event is written and
\* processMessage is called and runs up to its first await
ChatSession ==
  /\ chatPc = "loading"
  /\ \E ok \in BOOLEAN :
       IF ok
         THEN /\ existingSessionId' = storedSessionId
              /\ written' = ResWrite(written, lateWrites, ended, "status").written
              /\ chatPc' = "preparing"
              /\ UNCHANGED <<ended, lateWrites>>
         ELSE /\ ChatCatch(written)
              /\ UNCHANGED existingSessionId
  /\ UNCHANGED <<storedSessionId, chatNewSessionId, chatResult, watching, statPending,
                 fileEvents>>
  /\ UNCHANGED chatFrame

\* processMessage up to its loop: it rejects, or it calls query() and, for
\* a resumed conversation, registers the watcher under the session id
ProcessPrepare ==
  /\ chatPc = "preparing"
  /\ \E throws \in BOOLEAN :
       IF throws
         THEN /\ ChatCatch(written)
              /\ UNCHANGED watching
         ELSE /\ watching' = (existingSessionId # "undefined")
              /\ chatPc' = "streaming"
              /\ UNCHANGED <<written, ended, lateWrites>>
  /\ UNCHANGED <<storedSessionId, existingSessionId, chatNewSessionId, chatResult,
                 statPending, fileEvents>>
  /\ UNCHANGED chatFrame

\* one round of the loop: an init message sets newSessionId and is
\* announced by a status event, a text message is passed on as its delta
ProcessLoop ==
  /\ chatPc = "streaming"
  /\ Len(written) < MaxWritten
  /\ \E id \in SessionIds \cup {"undefined"} :
       /\ chatNewSessionId' = IF id = "undefined" THEN chatNewSessionId ELSE id
       /\ written' = ResWrite(written, lateWrites, ended,
                              IF id = "undefined" THEN "content_delta" ELSE "status").written
  /\ UNCHANGED <<chatPc, storedSessionId, existingSessionId, chatResult, ended, lateWrites,
                 watching, statPending, fileEvents>>
  /\ UNCHANGED chatFrame

\* the iterator of query() rejects: processMessage rejects, the handler
\* catches
ProcessThrow ==
  /\ chatPc = "streaming"
  /\ ChatCatch(written)
  /\ UNCHANGED <<storedSessionId, existingSessionId, chatNewSessionId, chatResult, watching,
                 statPending, fileEvents>>
  /\ UNCHANGED chatFrame

\* ArtifactService.stopWatching(newSessionId), called when newSessionId is
\* set: the watcher registered under key stays unless the ids agree
StopWatching(isWatching, key, id) ==
  isWatching /\ ~(id # "undefined" /\ id = key)

\* the loop is over: metrics event, stopWatching, processMessage resolves;
\* the handler awaits saveUserSession when there is a session id and
\* otherwise writes message_complete and ends the response
ProcessReturn ==
  /\ chatPc = "streaming"
  /\ watching' = StopWatching(watching, existingSessionId, chatNewSessionId)
  /\ chatResult' = << [sessionId |-> chatNewSessionId] >>
  /\ LET w1 == ResWrite(written, lateWrites, ended, "metrics").written
     IN  IF chatNewSessionId # "undefined"
           THEN /\ written' = w1
                /\ chatPc' = "saving"
                /\ UNCHANGED ended
           ELSE /\ written' = ResWrite(w1, lateWrites, ended, "message_complete").written
                /\ ended' = TRUE
                /\ chatPc' = "ended"
  /\ UNCHANGED <<storedSessionId, existingSessionId, chatNewSessionId, lateWrites,
                 statPending, fileEvents>>
  /\ UNCHANGED chatFrame

\* saveUserSession settles
ChatSaved ==
  /\ chatPc = "saving"
  /\ \E ok \in BOOLEAN :
       IF ok
         THEN /\ storedSessionId' = chatResult[1].sessionId
              /\ written' = ResWrite(written, lateWrites, ended, "message_complete").written
              /\ ended' = TRUE
              /\ chatPc' = "ended"
              /\ UNCHANGED lateWrites
         ELSE /\ ChatCatch(written)
              /\ UNCHANGED storedSessionId
  /\ UNCHANGED <<existingSessionId, chatNewSessionId, chatResult, watching, statPending,
                 fileEvents>>
  /\ UNCHANGED chatFrame

\* a file appears in the output directory while the watcher is registered:
\* its callback starts and awaits fs.stat
FileEvent ==
  /\ watching
  /\ fileEvents < MaxFiles
  /\ fileEvents' = fileEvents + 1
  /\ statPending' = statPending + 1
  /\ UNCHANGED <<chatPc, storedSessionId, existingSessionId, chatNewSessionId, chatResult,
                 written, ended, lateWrites, watching>>
  /\ UNCHANGED chatFrame

\* fs.stat settles: on success the callback calls onStream with a
\* file_created event
FileNotify ==
  /\ statPending > 0
  /\ statPending' = statPending - 1
  /\ \E ok \in BOOLEAN :
       LET w == ResWrite(written, lateWrites, ended, "file_created")
       IN  /\ written' = IF ok THEN w.written ELSE written
           /\ lateWrites' = IF ok THEN w.lateWrites ELSE lateWrites
  /\ UNCHANGED <<chatPc, storedSessionId, existingSessionId, chatNewSessionId, chatResult,
                 ended, watching, fileEvents>>
  /\ UNCHANGED chatFrame

NextChat ==
  \/ ChatRequest
  \/ ChatSession
  \/ ProcessPrepare
  \/ ProcessLoop
  \/ ProcessThrow
  \/ ProcessReturn
  \/ ChatSaved
  \/ FileEvent
  \/ FileNotify

SpecChat == InitChat /\ [][NextChat]_vars

Terminals(w) == { k \in 1..Len(w) : w[k] \in TerminalEvents }

\* the handler has read the stored session id and called processMessage
Processing == written # <<>> /\ written[1] = "status"

\* C29: a response that was ended holds exactly one terminal event,
\* message_complete or error, as its last event, and no res.write follows
\* res.end(); before that no terminal event is written.  Once
\* processMessage was called, the stored session id is the one that was
\* read, or the one processMessage resolved with; it is the one that was
\* read when processMessage rejected.
C29_OneTerminalEvent ==
  /\ ended => /\ Cardinality(Terminals(written)) = 1
              /\ written[Len(written)] \in TerminalEvents
              /\ lateWrites = <<>>
  /\ ~ended => Terminals(written) = {} /\ lateWrites = <<>>
  /\ Processing =>
       \/ storedSessionId = existingSessionId
       \/ /\ chatResult # <<>>
          /\ chatResult[1].sessionId # "undefined"
          /\ storedSessionId = chatResult[1].sessionId

\* ---- StorageService ------------------------------------------------------
\* Calls of addMessage and clearUserSession made by two callers, each for
\* its own user and each awaiting its call before making the next.  A call
\* is suspended at the readFile of loadSessions, at the writeFile of its
\* catch block, and at the writeFile of saveSessions.  readFile and
\* writeFile are taken to act on the whole file at once.
MaxCalls == 2

\* the content of the n-th message a caller adds
Contents == << "Message 1", "Message 2", "Message 3" >>

Message(role, content) == [role |-> role, content |-> content]

\* sessions.findIndex((s) => s.userId === userId), 0 when there is none
FindIndex(sessions, userId) ==
  IF \E k \in 1..Len(sessions) : sessions[k].userId = userId
    THEN CHOOSE k \in 1..Len(sessions) :
           /\ sessions[k].userId = userId
           /\ \A j \in 1..(k - 1) : sessions[j].userId # userId
    ELSE 0

\* addMessage between loadSessions and saveSessions
AddTo(sessions, userId, newMessage) ==
  LET existingIndex == FindIndex(sessions, userId)
  IN  IF existingIndex > 0
        THEN [sessions EXCEPT ![existingIndex].conversationHistory = Append(@, newMessage)]
        ELSE Append(sessions, [userId |-> userId, conversationHistory |-> <<newMessage>>])

\* clearUserSession: sessions.filter((s) => s.userId !== userId)
FilterOut(sessions, userId) == SelectSeq(sessions, LAMBDA rec : rec.userId # userId)

\* the array a call passes to saveSessions, given the one it loaded
Modified(call, userId, sessions) ==
  IF call.op = "addMessage"
    THEN AddTo(sessions, userId, Message("user", call.content))
    ELSE FilterOut(sessions, userId)

\* getUserConversation read off a file content
Conversation(f, userId) ==
  IF FindIndex(f.sessions, userId) = 0 THEN <<>>
  ELSE f.sessions[FindIndex(f.sessions, userId)].conversationHistory

storageFrame == <<ragVars, agentVars, streamVars, runs, chatVars>>

\* a caller calls addMessage or clearUserSession for its user: the call
\* runs into loadSessions and awaits readFile
StorageCall(c) ==
  /\ storageCalls[c].pc = "idle"
  /\ storageCalls[c].n < MaxCalls
  /\ \E op \in {"addMessage", "clearUserSession"} :
       storageCalls' = [storageCalls EXCEPT ![c] =
                          [pc |-> "loading", op |-> op,
                           content |-> IF op = "addMessage"
                                         THEN Contents[storageCalls[c].n + 1] ELSE "",
                           sessions |-> <<>>, n |-> storageCalls[c].n + 1]]
  /\ UNCHANGED <<file, resolved>>
  /\ UNCHANGED storageFrame

\* readFile settles.  With the file there, loadSessions returns its
\* content, the call changes its copy and awaits the writeFile of
\* saveSessions; without it, the catch block awaits its own writeFile
StorageRead(c) ==
  /\ storageCalls[c].pc = "loading"
  /\ storageCalls' = [storageCalls EXCEPT ![c] =
                        IF file.exists
                          THEN [storageCalls[c] EXCEPT
                                  !.pc = "saving",
                                  !.sessions = Modified(storageCalls[c], c, file.sessions)]
                          ELSE [storageCalls[c] EXCEPT !.pc = "creating"]]
  /\ UNCHANGED <<file, resolved>>
  /\ UNCHANGED storageFrame

\* the writeFile of the catch block lands: the file holds [], and the
\* call goes on with the empty array
StorageCreate(c) ==
  /\ storageCalls[c].pc = "creating"
  /\ file' = [exists |-> TRUE, sessions |-> <<>>]
  /\ storageCalls' = [storageCalls EXCEPT ![c] =
                        [storageCalls[c] EXCEPT
                           !.pc = "saving",
                           !.sessions = Modified(storageCalls[c], c, <<>>)]]
  /\ UNCHANGED resolved
  /\ UNCHANGED storageFrame

\* the writeFile of saveSessions lands and the call resolves
StorageWrite(c) ==
  /\ storageCalls[c].pc = "saving"
  /\ file' = [exists |-> TRUE, sessions |-> storageCalls[c].sessions]
  /\ resolved' = [resolved EXCEPT ![c] =
                    IF storageCalls[c].op = "addMessage"
                      THEN Append(@, Message("user", storageCalls[c].content))
                      ELSE <<>>]
  /\ storageCalls' = [storageCalls EXCEPT ![c] =
                        [@ EXCEPT !.pc = "idle", !.op = "none", !.content = "",
                                  !.sessions = <<>>]]
  /\ UNCHANGED storageFrame

StorageCalls == \E c \in Callers : StorageCall(c)
StorageReads == \E c \in Callers : StorageRead(c)
StorageCreates == \E c \in Callers : StorageCreate(c)
StorageWrites == \E c \in Callers : StorageWrite(c)

NextStorage ==
  \/ StorageCalls
  \/ StorageReads
  \/ StorageCreates
  \/ StorageWrites

SpecStorage == Init /\ [][NextStorage]_vars

\* C30: whatever the interleaving of the calls made for different users,
\* every message whose addMessage resolved (and that the user did not
\* clear afterwards) is in the conversation of that user, the file holds
\* at most one record per userId, and a user who has no clearUserSession
\* under way keeps its messages while another user's is cleared.
C30_UsersIndependent ==
  /\ \A c \in Callers :
       storageCalls[c].op # "clearUserSession" =>
         \A k \in 1..Len(resolved[c]) :
           \E j \in 1..Len(Conversation(file, c)) : Conversation(file, c)[j] = resolved[c][k]
  /\ \A a, b \in 1..Len(file.sessions) :
       a # b => file.sessions[a].userId # file.sessions[b].userId

====
